---- MODULE Spec2Model ----
(***************************************************************************)
(* ImageRoller: the manager / roller thread pool (threads/roller_manager,  *)
(* threads/roller), the entry point that runs it (main.execute) and the    *)
(* per-server pass (utils.process_server), as a state machine.             *)
(*                                                                         *)
(* Threads: the main thread (execute), the RollerManager thread, one       *)
(* thread per Roller.  Spec is the program as main.py runs it.  SpecStop   *)
(* adds other threads that call RollerManager.stop().  LiveSpec is Spec    *)
(* with the scheduler's fairness.  SpecPass is one call of process_server  *)
(* on inputs drawn from bounded sets.                                      *)
(***************************************************************************)
EXTENDS Integers, Sequences, FiniteSets, TLC

VARIABLES
    concurrent_workers, \* ConfigData._concurrent_workers
    server_data,        \* ConfigData.server_data: the enabled servers, in order
    servers_api,        \* what GET <servers_url>/servers answers for each server
    ident_response,     \* what POST IDENTITY_URL answered (<<>> before the call)
    mainPc,             \* position of the main thread in main.execute
    exitCode,           \* process exit code ("none" while running)
    startIdx,           \* RollerManager.start: next roller to start
    mgrPc,              \* position of the RollerManager thread
    mgrIdx,             \* RollerManager.run: index of the next server
    rollerPc,           \* position of each Roller thread (<<>> before creation)
    rollerItem,         \* the server a Roller is processing (None when idle)
    server_queue,       \* RollerManager.server_queue
    barrierParties,     \* parties of RollerManager.__roller_barrier
    barrierWaiting,     \* threads blocked in __roller_barrier.wait()
    stop_lock,          \* holders of RollerManager.__stop_lock
    is_stopping,        \* RollerManager.__is_stopping
    stopPc,             \* position of each caller of stop()
    stopK,              \* stop(): sentinels this caller has put so far
    stopCalls,          \* stop() calls each other thread has completed
    putLog,             \* history: every item put on server_queue, in order
    taken,              \* history: per roller, the items it dequeued
    handled,            \* history: per roller, <<server, outcome>> of each pass
    passIn,             \* SpecPass: the inputs of the process_server call
    passOut             \* SpecPass: what the call did (<<>> before the call)

runVars == <<concurrent_workers, server_data, servers_api, ident_response,
             mainPc, exitCode, startIdx, mgrPc, mgrIdx, rollerPc, rollerItem,
             server_queue, barrierParties, barrierWaiting, stop_lock,
             is_stopping, stopPc, stopK, stopCalls, putLog, taken, handled>>
passVars == <<passIn, passOut>>
vars == <<runVars, passVars>>

---------------------------------------------------------------------------
(* Bounds *)
MaxWorkers == 2
MaxServers == 2
MaxStoppers == 1
MaxImages == 2
MaxEntries == 2
MaxAssigns == 1

(* Program constants *)
HTTP_OK == 200
HTTP_NO_CONTENT == 204
None == 0
Unset == "None"

Regions == <<"DFW", "ORD">>

---------------------------------------------------------------------------
(* Identity: utils.parse_rax_id_data and RollerManager.__get_identity_info *)

RECURSIVE FirstEndpoint(_, _)
FirstEndpoint(endpoints, region) ==
    IF endpoints = <<>> THEN Unset
    ELSE IF Head(endpoints).region = region THEN Head(endpoints).publicURL
    ELSE FirstEndpoint(Tail(endpoints), region)

_lookup_public_urlNoFallback(catalog, cat_type, cat_name, region, previous_url) ==
    IF catalog.type = cat_type /\ catalog.name = cat_name
    THEN FirstEndpoint(catalog.endpoints, region)
    ELSE Unset
_lookup_public_url(catalog, cat_type, cat_name, region, previous_url) ==
    IF catalog.type = cat_type /\ catalog.name = cat_name
       /\ FirstEndpoint(catalog.endpoints, region) # Unset
    THEN FirstEndpoint(catalog.endpoints, region)
    ELSE previous_url

RECURSIVE ParseCatalogs(_, _, _, _)
ParseCatalogs(catalogs, region, servers_url, images_url) ==
    IF catalogs = <<>> THEN <<servers_url, images_url>>
    ELSE ParseCatalogs(Tail(catalogs), region,
            _lookup_public_url(Head(catalogs), "compute",
                               "cloudServersOpenStack", region, servers_url),
            _lookup_public_url(Head(catalogs), "image",
                               "cloudImages", region, images_url))

parse_rax_id_data(rax_id_data, region) ==
    ParseCatalogs(rax_id_data.serviceCatalog, region, Unset, Unset)

(* if servers_url is not None and images_url is not None *)
HasBothURLsOr(urls) == urls[1] # Unset \/ urls[2] # Unset
HasBothURLs(urls) == urls[1] # Unset /\ urls[2] # Unset

(* The for loop of __get_identity_info over config_data.server_data: the
   token and both URLs are attached to each server in turn; the first server
   with a missing URL raises (that server keeps the token only). *)
RECURSIVE AttachIdentity(_, _, _)
AttachIdentity(servers, i, rax_id_data) ==
    IF i > Len(servers) THEN [server_data |-> servers, raised |-> FALSE]
    ELSE LET urls == parse_rax_id_data(rax_id_data, servers[i].region)
             withToken == [servers EXCEPT ![i].token = rax_id_data.token]
         IN IF HasBothURLs(urls)
            THEN AttachIdentity(
                    [withToken EXCEPT ![i].servers_url = urls[1],
                                      ![i].images_url = urls[2]],
                    i + 1, rax_id_data)
            ELSE [server_data |-> withToken, raised |-> TRUE]

(* __get_identity_info: raises on a failed POST, a status other than 200, a
   body that is not JSON (ValueError), a body without the expected keys
   (KeyError) and a server without both URLs. *)
__get_identity_info(servers, response) ==
    IF response.status_code # HTTP_OK \/ response.content.kind # "catalog"
    THEN [server_data |-> servers, raised |-> TRUE]
    ELSE AttachIdentity(servers, 1, response.content)

---------------------------------------------------------------------------
(* Configuration: data.ConfigData / data.ServerData, as main.read_config
   leaves them.  A server is identified by its position in server_data (its
   unique name); regions alternate over Regions.  --force needs --server
   (main.get_args), which selects a single server. *)

ServerData(name, region, force, retain, timeout) ==
    [name |-> name, region |-> region, force |-> force,
     retain_image_minutes |-> retain, save_timeout_minutes |-> timeout,
     server_id |-> None, token |-> Unset,
     servers_url |-> Unset, images_url |-> Unset]

RegionOf(i) == Regions[((i - 1) % Len(Regions)) + 1]

RunConfigs ==
    { [i \in 1..n |-> ServerData(i, RegionOf(i), f, 1, 1)] :
        <<n, f>> \in { c \in (1..MaxServers) \X BOOLEAN : c[2] => c[1] = 1 } }

(* What the identity service may answer. *)
ServersURL == [r \in {"DFW", "ORD"} |->
                 IF r = "DFW" THEN "https://dfw.servers" ELSE "https://ord.servers"]
ImagesURL == [r \in {"DFW", "ORD"} |->
                 IF r = "DFW" THEN "https://dfw.images" ELSE "https://ord.images"]

Entry(type, name, urls, regions) ==
    [type |-> type, name |-> name,
     endpoints |-> [k \in 1..Len(regions) |->
                      [region |-> regions[k], publicURL |-> urls[regions[k]]]]]

Catalog(entries) ==
    [kind |-> "catalog", token |-> "token", serviceCatalog |-> entries]

Catalogs ==
    { Catalog(<<Entry("compute", "cloudServersOpenStack", ServersURL, <<"DFW", "ORD">>),
                Entry("image", "cloudImages", ImagesURL, <<"DFW", "ORD">>)>>),
      Catalog(<<Entry("image", "cloudImages", ImagesURL, <<"DFW">>),
                Entry("compute", "cloudServersOpenStack", ServersURL, <<"DFW">>)>>),
      Catalog(<<Entry("compute", "cloudServersOpenStack", ServersURL, <<"ORD", "DFW">>),
                Entry("image", "cloudImages", ImagesURL, <<"DFW">>)>>),
      Catalog(<<Entry("compute", "cloudServers", ServersURL, <<"DFW", "ORD">>),
                Entry("image", "cloudImages", ImagesURL, <<"DFW", "ORD">>)>>) }

NotJson == [kind |-> "text", token |-> Unset, serviceCatalog |-> <<>>]
OtherJson == [kind |-> "json", token |-> Unset, serviceCatalog |-> <<>>]
NoBody == [kind |-> "none", token |-> Unset, serviceCatalog |-> <<>>]

(* status_code 0 stands for requests.post raising (no response at all). *)
IdentityResponses ==
    { [status_code |-> HTTP_OK, content |-> c] : c \in Catalogs \cup {NotJson, OtherJson} }
    \cup { [status_code |-> 401, content |-> NotJson],
           [status_code |-> 0, content |-> NoBody] }

NotCalled == [status_code |-> -1, content |-> NoBody]

(* What GET <servers_url>/servers may answer when asked for server i. *)
ServersResponses(i) ==
    { [status_code |-> HTTP_OK, json |-> TRUE, servers |-> <<[name |-> i, id |-> i]>>],
      [status_code |-> HTTP_OK, json |-> TRUE, servers |-> <<[name |-> i + 1, id |-> i + 1]>>],
      [status_code |-> HTTP_OK, json |-> FALSE, servers |-> <<>>],
      [status_code |-> 500, json |-> FALSE, servers |-> <<>>] }

ServersAnswers(n) ==
    { f \in [1..n -> UNION { ServersResponses(i) : i \in 1..n }] :
        \A i \in 1..n : f[i] \in ServersResponses(i) }

(* The answers that list the server asked for, or fail with a status. *)
ListedOrFailed(n) ==
    { f \in ServersAnswers(n) :
        \A i \in 1..n : f[i].json \/ f[i].status_code # HTTP_OK }

---------------------------------------------------------------------------
(* utils.get_server_id: the id of the listed server whose name is the
   configured one, None when no listed server has it; raises on a status
   other than 200 and on a body that is not JSON. *)
FindServerAny(servers, name) ==
    IF servers = <<>> THEN None ELSE Head(servers).id
RECURSIVE FindServer(_, _)
FindServer(servers, name) ==
    IF servers = <<>> THEN None
    ELSE IF Head(servers).name = name THEN Head(servers).id
    ELSE FindServer(Tail(servers), name)

get_server_id(sd, response) ==
    IF response.status_code = HTTP_OK /\ response.json
    THEN [raised |-> FALSE, server_id |-> FindServer(response.servers, sd.name)]
    ELSE [raised |-> TRUE, server_id |-> None]

---------------------------------------------------------------------------
(* Thread identities: the manager is caller 0 of stop() and party 0 of the
   barrier; roller w is party w; the other threads that call stop() are
   callers 1..MaxStoppers. *)
Manager == 0
Rollers == 1..concurrent_workers
Stoppers == 1..MaxStoppers
Callers == {Manager} \cup Stoppers

PassIdle == passIn = <<>> /\ passOut = <<>>

RunInit ==
    /\ concurrent_workers \in 1..MaxWorkers
    /\ server_data \in RunConfigs
    /\ ident_response = NotCalled
    /\ mainPc = "execute"
    /\ exitCode = "none"
    /\ startIdx = 1
    /\ mgrPc = "new"
    /\ mgrIdx = 1
    /\ rollerPc = <<>>
    /\ rollerItem = <<>>
    /\ server_queue = <<>>
    /\ barrierParties = 0
    /\ barrierWaiting = {}
    /\ stop_lock = {}
    /\ is_stopping = FALSE
    /\ stopPc = [c \in Callers |-> "idle"]
    /\ stopK = [c \in Callers |-> 0]
    /\ stopCalls = [c \in Stoppers |-> 0]
    /\ putLog = <<>>
    /\ taken = <<>>
    /\ handled = <<>>
    /\ PassIdle

Init ==
    /\ RunInit
    /\ servers_api \in ServersAnswers(Len(server_data))

---------------------------------------------------------------------------
(* main.execute, lines 89-103 *)

(* threading.Barrier(self.config_data.concurrent_workers + 1) *)
BarrierSizeWorkersOnly(n) == n
BarrierSize(n) == n + 1

(* RollerManager.__init__: identity first; only when it returns are the
   queue, the barrier, the rollers, the lock and the flag created. *)
ManagerInitRollersFirst(response) ==
    LET got == __get_identity_info(server_data, response)
        n == concurrent_workers
    IN /\ ident_response' = response
       /\ server_data' = got.server_data
       /\ mainPc' = IF got.raised THEN "except" ELSE "start"
       /\ rollerPc' = [w \in 1..n |-> "new"]
       /\ rollerItem' = [w \in 1..n |-> None]
       /\ barrierParties' = BarrierSize(n)
       /\ taken' = [w \in 1..n |-> <<>>]
       /\ handled' = [w \in 1..n |-> <<>>]
ManagerInit(response) ==
    LET got == __get_identity_info(server_data, response)
        n == concurrent_workers
    IN /\ ident_response' = response
       /\ server_data' = got.server_data
       /\ IF got.raised
          THEN /\ mainPc' = "except"
               /\ UNCHANGED <<rollerPc, rollerItem, barrierParties, taken, handled>>
          ELSE /\ mainPc' = "start"
               /\ rollerPc' = [w \in 1..n |-> "new"]
               /\ rollerItem' = [w \in 1..n |-> None]
               /\ barrierParties' = BarrierSize(n)
               /\ taken' = [w \in 1..n |-> <<>>]
               /\ handled' = [w \in 1..n |-> <<>>]

Construct ==
    /\ mainPc = "execute"
    /\ \E response \in IdentityResponses : ManagerInit(response)
    /\ UNCHANGED <<concurrent_workers, servers_api, exitCode, startIdx, mgrPc,
                   mgrIdx, server_queue, barrierWaiting, stop_lock, is_stopping,
                   stopPc, stopK, stopCalls, putLog, passVars>>

(* except Exception: ... sys.exit(1) *)
ExitOnException ==
    /\ mainPc = "except"
    /\ mainPc' = "exited"
    /\ exitCode' = "1"
    /\ UNCHANGED <<concurrent_workers, server_data, servers_api, ident_response,
                   startIdx, mgrPc, mgrIdx, rollerPc, rollerItem, server_queue,
                   barrierParties, barrierWaiting, stop_lock, is_stopping,
                   stopPc, stopK, stopCalls, putLog, taken, handled, passVars>>

(* RollerManager.start: super().start() starts the manager thread first ... *)
StartManager ==
    /\ mainPc = "start"
    /\ mgrPc' = "run"
    /\ mainPc' = "start_rollers"
    /\ UNCHANGED <<concurrent_workers, server_data, servers_api, ident_response,
                   exitCode, startIdx, mgrIdx, rollerPc, rollerItem, server_queue,
                   barrierParties, barrierWaiting, stop_lock, is_stopping,
                   stopPc, stopK, stopCalls, putLog, taken, handled, passVars>>

(* ... then each roller, one start() at a time. *)
StartRoller ==
    /\ mainPc = "start_rollers"
    /\ rollerPc' = [rollerPc EXCEPT ![startIdx] = "get"]
    /\ startIdx' = startIdx + 1
    /\ mainPc' = IF startIdx = Len(rollerPc) THEN "join" ELSE "start_rollers"
    /\ UNCHANGED <<concurrent_workers, server_data, servers_api, ident_response,
                   exitCode, mgrPc, mgrIdx, rollerItem, server_queue,
                   barrierParties, barrierWaiting, stop_lock, is_stopping,
                   stopPc, stopK, stopCalls, putLog, taken, handled, passVars>>

(* The exit code of a run that execute returns from: no sys.exit is called. *)
ExitStatusByFailures ==
    IF \/ \E w \in DOMAIN handled : \E k \in 1..Len(handled[w]) : handled[w][k].raised
       \/ \E i \in 1..Len(server_data) : server_data[i].server_id = None
    THEN "1" ELSE "0"
ExitStatus == "0"

(* roller_mgr.join() returns once the manager thread has ended; execute then
   returns and the interpreter exits once every non-daemon thread has
   ended. *)
JoinAndExit ==
    /\ mainPc = "join"
    /\ mgrPc = "done"
    /\ \A w \in DOMAIN rollerPc : rollerPc[w] = "exited"
    /\ \A c \in DOMAIN stopPc : stopPc[c] = "idle"
    /\ mainPc' = "exited"
    /\ exitCode' = ExitStatus
    /\ UNCHANGED <<concurrent_workers, server_data, servers_api, ident_response,
                   startIdx, mgrPc, mgrIdx, rollerPc, rollerItem, server_queue,
                   barrierParties, barrierWaiting, stop_lock, is_stopping,
                   stopPc, stopK, stopCalls, putLog, taken, handled, passVars>>

---------------------------------------------------------------------------
(* The pass over one server: utils.process_server and its helpers.
   Instants are seconds; an image name is whether it starts with a
   timestamp, the minute that timestamp reads, and the text after it. *)

SecondsPerMinute == 60
Suffix == "_imageroller"

(* ServerData.save_timeout_seconds, ServerData.retain_image_seconds *)
save_timeout_seconds(sd) == sd.save_timeout_minutes * SecondsPerMinute
retain_image_seconds(sd) == sd.retain_image_minutes * SecondsPerMinute

(* ImageData.saving, ImageData.active *)
saving(image) == image.status = "SAVING"
activeUnlessSaving(image) == image.status # "SAVING"
active(image) == image.status = "ACTIVE"

(* strftime(IMAGE_NAME_TEMPLATE): minute resolution *)
get_image_name(utcnow) ==
    [stamped |-> TRUE, minute |-> utcnow \div SecondsPerMinute, text |-> Suffix]

(* strptime(name, IMAGE_NAME_TEMPLATE) succeeds (no ValueError) *)
MatchesTemplateStampOnly(name) == name.stamped
MatchesTemplate(name) == name.stamped /\ name.text = Suffix

(* _get_images: keeps, in order, the images whose name parses *)
_get_imagesUnfiltered(images) == images
_get_images(images) == SelectSeq(images, LAMBDA image : MatchesTemplate(image.name))

(* get_images: raises on a status other than 200 and on a body that does
   not parse (not JSON, or an image entry without well-formed created and
   updated dates: ImageData's constructor raises ValueError) *)
get_images(response) ==
    IF response.status_code = HTTP_OK /\ response.json
    THEN [raised |-> FALSE, images |-> _get_images(response.images)]
    ELSE [raised |-> TRUE, images |-> <<>>]

_is_any_in_progressUnfinished(images) ==
    \E k \in 1..Len(images) : saving(images[k]) /\ images[k].progress < 100
_is_any_in_progress(images) ==
    \E k \in 1..Len(images) : saving(images[k])

_is_timed_outByCreated(utcnow, sd, images) ==
    \E k \in 1..Len(images) :
        /\ saving(images[k])
        /\ images[k].progress < 100
        /\ (utcnow - images[k].created) > save_timeout_seconds(sd)
_is_timed_outAtBoundary(utcnow, sd, images) ==
    \E k \in 1..Len(images) :
        /\ saving(images[k])
        /\ images[k].progress < 100
        /\ (utcnow - images[k].updated) >= save_timeout_seconds(sd)
_is_timed_out(utcnow, sd, images) ==
    \E k \in 1..Len(images) :
        /\ saving(images[k])
        /\ images[k].progress < 100
        /\ (utcnow - images[k].updated) > save_timeout_seconds(sd)

_needs_imageByEither(utcnow, sd, images) ==
    \/ sd.force
    \/ ~ \E k \in 1..Len(images) :
            /\ active(images[k])
            /\ \/ (utcnow - images[k].created) < retain_image_seconds(sd)
               \/ (utcnow - images[k].updated) < retain_image_seconds(sd)
_needs_imageAtBoundary(utcnow, sd, images) ==
    \/ sd.force
    \/ ~ \E k \in 1..Len(images) :
            /\ active(images[k])
            /\ (utcnow - images[k].created) <= retain_image_seconds(sd)
_needs_imageByUpdated(utcnow, sd, images) ==
    \/ sd.force
    \/ ~ \E k \in 1..Len(images) :
            /\ active(images[k])
            /\ (utcnow - images[k].updated) < retain_image_seconds(sd)
_needs_imageNoForce(utcnow, sd, images) ==
    ~ \E k \in 1..Len(images) :
         /\ active(images[k])
         /\ (utcnow - images[k].created) < retain_image_seconds(sd)
_needs_image(utcnow, sd, images) ==
    \/ sd.force
    \/ ~ \E k \in 1..Len(images) :
            /\ active(images[k])
            /\ (utcnow - images[k].created) < retain_image_seconds(sd)

(* The condition under which _delete_expired_images deletes an image *)
IsExpiredAnyActive(utcnow, sd, image) == active(image)
IsExpiredAtBoundary(utcnow, sd, image) ==
    active(image) /\ (utcnow - image.updated) >= retain_image_seconds(sd)
IsExpiredByCreated(utcnow, sd, image) ==
    active(image) /\ (utcnow - image.created) > retain_image_seconds(sd)
IsExpired(utcnow, sd, image) ==
    active(image) /\ (utcnow - image.updated) > retain_image_seconds(sd)

(* What DELETE <images_url>/images/<id> answers: a status code, or 0 when
   requests.delete raises.  An image the answers do not name gets 204. *)
DeleteAnswer(deletes, id) ==
    IF id \in DOMAIN deletes THEN deletes[id] ELSE HTTP_NO_CONTENT

(* The for loop of _delete_expired_images: each expired image gets one
   delete request, in list order; a request that raises ends the loop. *)
RECURSIVE DeleteLoopStopsOnFailure(_, _, _, _, _)
DeleteLoopStopsOnFailure(utcnow, sd, images, deletes, acc) ==
    IF images = <<>> THEN acc
    ELSE IF IsExpired(utcnow, sd, Head(images))
    THEN LET id == Head(images).image_id
             sent == [acc EXCEPT !.deleted = Append(@, id)]
         IN IF DeleteAnswer(deletes, id) = 0
            THEN [sent EXCEPT !.raised = TRUE]
            ELSE IF DeleteAnswer(deletes, id) # HTTP_NO_CONTENT
            THEN [sent EXCEPT !.success = FALSE]
            ELSE DeleteLoopStopsOnFailure(utcnow, sd, Tail(images), deletes, sent)
    ELSE DeleteLoopStopsOnFailure(utcnow, sd, Tail(images), deletes, acc)
RECURSIVE DeleteLoop(_, _, _, _, _)
DeleteLoop(utcnow, sd, images, deletes, acc) ==
    IF images = <<>> THEN acc
    ELSE IF IsExpired(utcnow, sd, Head(images))
    THEN LET id == Head(images).image_id
             sent == [acc EXCEPT !.deleted = Append(@, id)]
         IN IF DeleteAnswer(deletes, id) = 0
            THEN [sent EXCEPT !.raised = TRUE]
            ELSE DeleteLoop(utcnow, sd, Tail(images), deletes,
                    [sent EXCEPT !.success =
                        @ /\ DeleteAnswer(deletes, id) = HTTP_NO_CONTENT])
    ELSE DeleteLoop(utcnow, sd, Tail(images), deletes, acc)

_delete_expired_images(utcnow, sd, images, deletes) ==
    IF sd.force
    THEN [deleted |-> <<>>, success |-> TRUE, raised |-> FALSE]
    ELSE DeleteLoop(utcnow, sd, images, deletes,
                    [deleted |-> <<>>, success |-> TRUE, raised |-> FALSE])

(* What a pass did: the branch taken, the names of the create requests
   sent, the ids of the delete requests sent, and whether it raised.  The
   create request runs in a RollerRunner thread that process_server joins:
   its answer is logged there and never reaches process_server. *)
PassResult(branch, created, deleted, raised) ==
    [branch |-> branch, created |-> created, deleted |-> deleted, raised |-> raised]

DecideCleansUpAfterCreate(utcnow, sd, images, deletes) ==
    IF _is_any_in_progress(images)
    THEN IF _is_timed_out(utcnow, sd, images)
         THEN PassResult("timed_out", <<>>, <<>>, FALSE)
         ELSE PassResult("waiting", <<>>, <<>>, FALSE)
    ELSE LET del == DeleteLoop(utcnow, sd, images, deletes,
                        [deleted |-> <<>>, success |-> TRUE, raised |-> FALSE])
         IN IF _needs_image(utcnow, sd, images)
            THEN PassResult("create", <<get_image_name(utcnow)>>, del.deleted, del.raised)
            ELSE PassResult("delete", <<>>, del.deleted, del.raised)
Decide(utcnow, sd, images, deletes) ==
    IF _is_any_in_progress(images)
    THEN IF _is_timed_out(utcnow, sd, images)
         THEN PassResult("timed_out", <<>>, <<>>, FALSE)
         ELSE PassResult("waiting", <<>>, <<>>, FALSE)
    ELSE IF _needs_image(utcnow, sd, images)
         THEN PassResult("create", <<get_image_name(utcnow)>>, <<>>, FALSE)
         ELSE LET del == _delete_expired_images(utcnow, sd, images, deletes)
              IN PassResult("delete", <<>>, del.deleted, del.raised)

process_server(utcnow, sd, response, deletes) ==
    LET got == get_images(response)
    IN IF got.raised
       THEN PassResult("error", <<>>, <<>>, TRUE)
       ELSE Decide(utcnow, sd, got.images, deletes)

---------------------------------------------------------------------------
(* RollerManager.run, lines 137-154 *)

(* self.server_queue = queue.Queue(): put() adds at the tail, get() takes the
   head. *)
PutLifo(q, item) == <<item>> \o q
Put(q, item) == Append(q, item)

(* if server_data.server_id is not None *)
HasServerIdAlways(server_id) == TRUE
HasServerId(server_id) == server_id # None

envVars == <<concurrent_workers, servers_api, ident_response, barrierParties>>
mainVars == <<mainPc, exitCode, startIdx>>
stopVars == <<stop_lock, is_stopping, stopPc, stopK, stopCalls>>
rollerVars == <<rollerPc, rollerItem, taken, handled>>

(* One iteration of the for loop: get_server_id, then put the server on the
   queue when an id came back.  An exception leaves the loop (the try
   encloses the whole for statement) and run() goes on to stop(). *)
RunLoopStepRaiseEndsRun ==
    LET i == mgrIdx
        got == get_server_id(server_data[i], servers_api[i])
    IN /\ mgrPc = "run"
       /\ IF got.raised
          THEN /\ mgrPc' = "done"
               /\ UNCHANGED <<server_data, server_queue, putLog, mgrIdx>>
          ELSE /\ server_data' = [server_data EXCEPT ![i].server_id = got.server_id]
               /\ IF HasServerId(got.server_id)
                  THEN /\ server_queue' = Put(server_queue, i)
                       /\ putLog' = Append(putLog, i)
                  ELSE UNCHANGED <<server_queue, putLog>>
               /\ mgrIdx' = i + 1
               /\ mgrPc' = IF i = Len(server_data) THEN "stop" ELSE "run"
       /\ UNCHANGED <<envVars, mainVars, stopVars, rollerVars, barrierWaiting, passVars>>
RunLoopStep ==
    LET i == mgrIdx
        got == get_server_id(server_data[i], servers_api[i])
    IN /\ mgrPc = "run"
       /\ IF got.raised
          THEN /\ mgrPc' = "stop"
               /\ UNCHANGED <<server_data, server_queue, putLog, mgrIdx>>
          ELSE /\ server_data' = [server_data EXCEPT ![i].server_id = got.server_id]
               /\ IF HasServerId(got.server_id)
                  THEN /\ server_queue' = Put(server_queue, i)
                       /\ putLog' = Append(putLog, i)
                  ELSE UNCHANGED <<server_queue, putLog>>
               /\ mgrIdx' = i + 1
               /\ mgrPc' = IF i = Len(server_data) THEN "stop" ELSE "run"
       /\ UNCHANGED <<envVars, mainVars, stopVars, rollerVars, barrierWaiting, passVars>>

---------------------------------------------------------------------------
(* RollerManager.stop, lines 156-165 *)

(* if not self.__is_stopping *)
ShouldPoisonAlways == TRUE
ShouldPoison == ~is_stopping

(* range(self.config_data.concurrent_workers) *)
SentinelCountPlusOne == concurrent_workers + 1
SentinelCountMinusOne == concurrent_workers - 1
SentinelCount == concurrent_workers

(* stop() returns to its caller: run() goes on to the barrier. *)
StopReturns(c) ==
    IF c = Manager
    THEN mgrPc' = "wait" /\ UNCHANGED stopCalls
    ELSE stopCalls' = [stopCalls EXCEPT ![c] = @ + 1] /\ UNCHANGED mgrPc

(* with self.__stop_lock: the caller blocks until the lock is free; with the
   flag already set it leaves at once. *)
StopEnter(c) ==
    /\ stopPc[c] = "idle"
    /\ stop_lock = {}
    /\ IF ShouldPoison
       THEN /\ stop_lock' = {c}
            /\ stopPc' = [stopPc EXCEPT ![c] = "poisoning"]
            /\ stopK' = [stopK EXCEPT ![c] = 0]
            /\ UNCHANGED <<mgrPc, stopCalls>>
       ELSE /\ StopReturns(c)
            /\ UNCHANGED <<stop_lock, stopPc, stopK>>
    /\ UNCHANGED <<envVars, mainVars, server_data, mgrIdx, rollerVars, server_queue,
                   barrierWaiting, is_stopping, putLog, passVars>>

(* self.server_queue.put(None), once per loop iteration *)
StopPut(c) ==
    /\ stopPc[c] = "poisoning"
    /\ stopK[c] < SentinelCount
    /\ server_queue' = Put(server_queue, None)
    /\ putLog' = Append(putLog, None)
    /\ stopK' = [stopK EXCEPT ![c] = @ + 1]
    /\ UNCHANGED <<envVars, mainVars, server_data, mgrPc, mgrIdx, rollerVars,
                   barrierWaiting, stop_lock, is_stopping, stopPc, stopCalls, passVars>>

(* self.__is_stopping = True, and the lock is released *)
StopLeave(c) ==
    /\ stopPc[c] = "poisoning"
    /\ stopK[c] >= SentinelCount
    /\ is_stopping' = TRUE
    /\ stop_lock' = stop_lock \ {c}
    /\ stopPc' = [stopPc EXCEPT ![c] = "idle"]
    /\ StopReturns(c)
    /\ UNCHANGED <<envVars, mainVars, server_data, mgrIdx, rollerVars, server_queue,
                   barrierWaiting, stopK, putLog, passVars>>

(* run(): self.stop() *)
ManagerStop ==
    \/ mgrPc = "stop" /\ StopEnter(Manager)
    \/ mgrPc = "stop" /\ StopPut(Manager)
    \/ mgrPc = "stop" /\ StopLeave(Manager)

(* stop() called by another thread, any time the manager object exists and
   the process has not exited.  Each other thread calls once; a call that
   finds the lock held waits, so the threads enter one after another (in
   the order of their numbers, which is no restriction). *)
CanCallStop(c) ==
    /\ mainPc \in {"start", "start_rollers", "join"}
    /\ stopCalls[c] = 0
    /\ IF c = 1 THEN TRUE ELSE stopCalls[c - 1] > 0

OtherStop ==
    \/ \E c \in Stoppers : CanCallStop(c) /\ StopEnter(c)
    \/ \E c \in Stoppers : StopPut(c)
    \/ \E c \in Stoppers : StopLeave(c)

---------------------------------------------------------------------------
(* threading.Barrier.wait() *)

(* The caller that completes the party count releases every waiting thread;
   each thread ends right after (the manager's end is what join() awaits). *)
Arrive(p) ==
    LET here == barrierWaiting \cup {p}
    IN IF Cardinality(here) = barrierParties
       THEN /\ barrierWaiting' = {}
            /\ mgrPc' = IF Manager \in here THEN "done" ELSE mgrPc
            /\ rollerPc' = [w \in DOMAIN rollerPc |->
                              IF w \in here THEN "exited" ELSE rollerPc[w]]
       ELSE /\ barrierWaiting' = here
            /\ mgrPc' = IF p = Manager THEN "barrier" ELSE mgrPc
            /\ rollerPc' = [w \in DOMAIN rollerPc |->
                              IF w = p THEN "barrier" ELSE rollerPc[w]]

(* run(): self.__roller_barrier.wait() *)
ManagerWait ==
    /\ mgrPc = "wait"
    /\ Arrive(Manager)
    /\ UNCHANGED <<envVars, mainVars, stopVars, server_data, mgrIdx, rollerItem,
                   taken, handled, server_queue, putLog, passVars>>

---------------------------------------------------------------------------
(* Roller.run, lines 43-64 *)

(* if server_data is None *)
IsPoisonNever(item) == FALSE
IsPoison(item) == item = None

(* What the images listing answers in a run: an error, or no image. *)
RunImagesResponses ==
    { [status_code |-> 500, json |-> FALSE, images |-> <<>>],
      [status_code |-> HTTP_OK, json |-> TRUE, images |-> <<>>] }

(* server_data = self._server_queue.get(): blocks while the queue is empty.
   Poison stops the loop (self.stop()). *)
CanGetSerialized(w) ==
    /\ server_queue # <<>>
    /\ \A v \in DOMAIN rollerPc \ {w} : rollerPc[v] # "process"
CanGet(w) == server_queue # <<>>

Get(w) ==
    /\ rollerPc[w] = "get"
    /\ CanGet(w)
    /\ server_queue' = Tail(server_queue)
    /\ taken' = [taken EXCEPT ![w] = Append(@, Head(server_queue))]
    /\ IF IsPoison(Head(server_queue))
       THEN /\ rollerPc' = [rollerPc EXCEPT ![w] = "stopped"]
            /\ UNCHANGED rollerItem
       ELSE /\ rollerPc' = [rollerPc EXCEPT ![w] = "process"]
            /\ rollerItem' = [rollerItem EXCEPT ![w] = Head(server_queue)]
    /\ UNCHANGED <<envVars, mainVars, stopVars, server_data, mgrPc, mgrIdx,
                   barrierWaiting, putLog, handled, passVars>>

(* Where the loop goes after process_server: back to get(), also when it
   raised (except Exception: log). *)
AfterPassLeavesLoop(raised) == IF raised THEN "stopped" ELSE "get"
AfterPassUncaught(raised) == IF raised THEN "exited" ELSE "get"
AfterPass(raised) == "get"

(* imageroller.utils.process_server(server_data, self.log) *)
Process(w) ==
    /\ rollerPc[w] = "process"
    /\ \E response \in RunImagesResponses :
         LET out == process_server(0, server_data[rollerItem[w]], response, <<>>)
         IN /\ handled' = [handled EXCEPT ![w] =
                              Append(@, [server |-> rollerItem[w], raised |-> out.raised])]
            /\ rollerPc' = [rollerPc EXCEPT ![w] = AfterPass(out.raised)]
    /\ rollerItem' = [rollerItem EXCEPT ![w] = None]
    /\ UNCHANGED <<envVars, mainVars, stopVars, server_data, mgrPc, mgrIdx,
                   server_queue, barrierWaiting, putLog, taken, passVars>>

(* self.__barrier.wait() *)
RollerWait(w) ==
    /\ rollerPc[w] = "stopped"
    /\ Arrive(w)
    /\ UNCHANGED <<envVars, mainVars, stopVars, server_data, mgrIdx, rollerItem,
                   taken, handled, server_queue, putLog, passVars>>

---------------------------------------------------------------------------
Next ==
    \/ Construct
    \/ ExitOnException
    \/ StartManager
    \/ StartRoller
    \/ JoinAndExit
    \/ RunLoopStep
    \/ ManagerStop
    \/ ManagerWait
    \/ \E w \in DOMAIN rollerPc : Get(w)
    \/ \E w \in DOMAIN rollerPc : Process(w)
    \/ \E w \in DOMAIN rollerPc : RollerWait(w)

Spec == Init /\ [][Next]_vars

(* The program with other threads calling RollerManager.stop() *)
NextStop == Next \/ OtherStop

InitStop ==
    /\ RunInit
    /\ servers_api \in ListedOrFailed(Len(server_data))

SpecStop == InitStop /\ [][NextStop]_vars

(* The program under a scheduler that lets every thread that can take a step
   take one eventually (every external call returns or raises: each such
   call is one step of its thread). *)
MainThread == Construct \/ ExitOnException \/ StartManager \/ StartRoller \/ JoinAndExit
ManagerThread == RunLoopStep \/ ManagerStop \/ ManagerWait
RollerThread(w) == w \in DOMAIN rollerPc /\ (Get(w) \/ Process(w) \/ RollerWait(w))

LiveSpec ==
    /\ Spec
    /\ WF_vars(MainThread)
    /\ WF_vars(ManagerThread)
    /\ \A w \in 1..MaxWorkers : WF_vars(RollerThread(w))

(* The program when the pass of one roller may never return (a call to the
   provider that hangs): that roller's Process step is not guaranteed; every
   other step of every thread is. *)
RollerLoop(w) == w \in DOMAIN rollerPc /\ (Get(w) \/ RollerWait(w))
RollerPass(w) == w \in DOMAIN rollerPc /\ Process(w)

HangSpec ==
    /\ Spec
    /\ WF_vars(MainThread)
    /\ WF_vars(ManagerThread)
    /\ \A w \in 1..MaxWorkers : WF_vars(RollerLoop(w))
    /\ \E h \in 1..MaxWorkers :
          \A w \in (1..MaxWorkers) \ {h} : WF_vars(RollerPass(w))

---------------------------------------------------------------------------
(* One call of process_server on its own *)

(* Instants of the listings and of the pass: the ages now - created and
   now - updated fall below, on and above one minute (now = 7260) and two
   minutes (now = 7320), the windows of MinuteChoices. *)
Stamps == {7199, 7200, 7201}
NowChoices == {7260, 7320}
MinuteChoices == {1, 2}

ImageData(name, status, created, updated, progress) ==
    [name |-> name, status |-> status, created |-> created,
     updated |-> updated, progress |-> progress]

TemplateName(created) ==
    [stamped |-> TRUE, minute |-> created \div SecondsPerMinute, text |-> Suffix]

ForeignNames ==
    { [stamped |-> FALSE, minute |-> 0, text |-> "backup"],
      [stamped |-> TRUE, minute |-> 120, text |-> "_manual"] }

ImageChoices ==
    { ImageData(TemplateName(c), "ACTIVE", c, u, 100) : c \in Stamps, u \in Stamps }
    \cup { ImageData(TemplateName(7199), "SAVING", 7199, u, p) :
              u \in Stamps, p \in {50, 100} }
    \cup { ImageData(TemplateName(7199), "ERROR", 7199, 7199, 0) }
    \cup { ImageData(n, st[1], 7199, 7199, st[2]) :
        n \in ForeignNames, st \in {<<"SAVING", 50>>, <<"ACTIVE", 100>>} }

(* The images listing: position k of the list has image id k. *)
ImageLists ==
    UNION { { [k \in 1..n |-> [image_id |-> k] @@ f[k]] : f \in [1..n -> ImageChoices] } :
              n \in 0..MaxImages }

ImagesResponses ==
    { [status_code |-> HTTP_OK, json |-> TRUE, images |-> l] : l \in ImageLists }
    \cup { [status_code |-> HTTP_OK, json |-> FALSE, images |-> <<>>],
           [status_code |-> 500, json |-> FALSE, images |-> <<>>] }

PassServers ==
    { [ServerData(1, "DFW", f, r, t) EXCEPT
          !.server_id = 1, !.token = "token",
          !.servers_url = ServersURL["DFW"], !.images_url = ImagesURL["DFW"]] :
        f \in BOOLEAN, r \in MinuteChoices, t \in MinuteChoices }

PassInputs ==
    [utcnow : NowChoices, sd : PassServers, response : ImagesResponses]

(* The answers to the delete requests a pass can send: one per ACTIVE image
   of the listing (204, another status, or 0 for a request that raises). *)
DeleteAnswers(response) ==
    [ { response.images[k].image_id :
          k \in { j \in 1..Len(response.images) : active(response.images[j]) } }
      -> {HTTP_NO_CONTENT, 500, 0} ]

RunIdle ==
    /\ concurrent_workers = 1
    /\ server_data = <<>>
    /\ servers_api = <<>>
    /\ ident_response = NotCalled
    /\ mainPc = "pass"
    /\ exitCode = "none"
    /\ startIdx = 1
    /\ mgrPc = "new"
    /\ mgrIdx = 1
    /\ rollerPc = <<>>
    /\ rollerItem = <<>>
    /\ server_queue = <<>>
    /\ barrierParties = 0
    /\ barrierWaiting = {}
    /\ stop_lock = {}
    /\ is_stopping = FALSE
    /\ stopPc = [c \in Callers |-> "idle"]
    /\ stopK = [c \in Callers |-> 0]
    /\ stopCalls = [c \in Stoppers |-> 0]
    /\ putLog = <<>>
    /\ taken = <<>>
    /\ handled = <<>>

InitPass ==
    /\ RunIdle
    /\ passIn \in { <<in>> : in \in PassInputs }
    /\ passOut = <<>>

Pass ==
    /\ passIn # <<>>
    /\ passOut = <<>>
    /\ \E deletes \in DeleteAnswers(passIn[1].response) :
         passOut' = << [deletes |-> deletes,
                        result |-> process_server(passIn[1].utcnow, passIn[1].sd,
                                                  passIn[1].response, deletes)] >>
    /\ UNCHANGED <<runVars, passIn>>

SpecPass == InitPass /\ [][Pass]_vars

---------------------------------------------------------------------------
(* Image names as text: utils.get_image_name formats an instant with
   strftime(IMAGE_NAME_TEMPLATE) and _get_images parses names back with
   strptime.  A name is a sequence of characters (a literal run of the
   template is kept as one element); an instant is a datetime's fields. *)

IMAGE_NAME_TEMPLATEHourOnly ==
    <<"%Y", "-", "%m", "-", "%d", "_", "%H", "_imageroller">>
(* "%Y-%m-%d_%H-%M_imageroller" *)
IMAGE_NAME_TEMPLATE ==
    <<"%Y", "-", "%m", "-", "%d", "_", "%H", "-", "%M", "_imageroller">>

DigitChars == <<"0", "1", "2", "3", "4", "5", "6", "7", "8", "9">>
PowersOfTen == <<1, 10, 100, 1000>>

IsDirective(d) == d \in {"%Y", "%m", "%d", "%H", "%M", "%S"}
DirectiveWidth(d) == IF d = "%Y" THEN 4 ELSE 2

(* The datetime field a directive stands for *)
DirectiveField(t, d) ==
    CASE d = "%Y" -> t.year
      [] d = "%m" -> t.month
      [] d = "%d" -> t.day
      [] d = "%H" -> t.hour
      [] d = "%M" -> t.minute
      [] d = "%S" -> t.second

(* The value a directive accepts when parsing *)
DirectiveAccepts(d, n) ==
    CASE d = "%Y" -> TRUE
      [] d = "%m" -> n \in 1..12
      [] d = "%d" -> n \in 1..31
      [] d = "%H" -> n \in 0..23
      [] d = "%M" -> n \in 0..59
      [] d = "%S" -> n \in 0..61

SetField(t, d, n) ==
    CASE d = "%Y" -> [t EXCEPT !.year = n]
      [] d = "%m" -> [t EXCEPT !.month = n]
      [] d = "%d" -> [t EXCEPT !.day = n]
      [] d = "%H" -> [t EXCEPT !.hour = n]
      [] d = "%M" -> [t EXCEPT !.minute = n]
      [] d = "%S" -> [t EXCEPT !.second = n]

(* A number as zero-padded decimal digits *)
ZeroPadded(n, width) ==
    [k \in 1..width |-> DigitChars[((n \div PowersOfTen[width - k + 1]) % 10) + 1]]

IsDigit(c) == \E d \in 1..10 : DigitChars[d] = c
DigitValue(c) == (CHOOSE d \in 1..10 : DigitChars[d] = c) - 1

RECURSIVE Number(_)
Number(chars) ==
    IF chars = <<>> THEN 0
    ELSE Number(SubSeq(chars, 1, Len(chars) - 1)) * 10 + DigitValue(chars[Len(chars)])

(* datetime.strftime *)
RECURSIVE strftime(_, _)
strftime(t, template) ==
    IF template = <<>> THEN <<>>
    ELSE (IF IsDirective(Head(template))
          THEN ZeroPadded(DirectiveField(t, Head(template)), DirectiveWidth(Head(template)))
          ELSE <<Head(template)>>)
         \o strftime(t, Tail(template))

(* What strptime starts from: 1900-01-01 00:00:00.000000 *)
StrptimeDefault ==
    [year |-> 1900, month |-> 1, day |-> 1, hour |-> 0, minute |-> 0,
     second |-> 0, microsecond |-> 0]

(* datetime.strptime: the parsed datetime, or ok = FALSE for ValueError (a
   literal that does not match, a field that is not a number in range, or
   text left over). *)
RECURSIVE ParseFields(_, _, _)
ParseFields(name, template, acc) ==
    IF template = <<>>
    THEN [ok |-> name = <<>>, datetime |-> acc]
    ELSE LET d == Head(template)
             w == DirectiveWidth(d)
         IN IF IsDirective(d)
            THEN IF /\ Len(name) >= w
                    /\ \A k \in 1..w : IsDigit(name[k])
                    /\ DirectiveAccepts(d, Number(SubSeq(name, 1, w)))
                 THEN ParseFields(SubSeq(name, w + 1, Len(name)), Tail(template),
                                  SetField(acc, d, Number(SubSeq(name, 1, w))))
                 ELSE [ok |-> FALSE, datetime |-> acc]
            ELSE IF name # <<>> /\ Head(name) = d
                 THEN ParseFields(Tail(name), Tail(template), acc)
                 ELSE [ok |-> FALSE, datetime |-> acc]

strptime(name, template) == ParseFields(name, template, StrptimeDefault)

(* get_image_name(utcnow, name_template=IMAGE_NAME_TEMPLATE) *)
ImageNameText(utcnow) == strftime(utcnow, IMAGE_NAME_TEMPLATE)

(* Instants: the ends of each field's range *)
Instants ==
    [year : {1999, 2026}, month : {1, 12}, day : {1, 31}, hour : {0, 23},
     minute : {0, 59}, second : {0, 59}, microsecond : {0, 999999}]

(* Names that are not generated ones *)
OtherNames ==
    { <<"b", "a", "c", "k", "u", "p">>,
      strftime(StrptimeDefault, IMAGE_NAME_TEMPLATE) \o <<"-", "2">>,
      strftime(StrptimeDefault, <<"%Y", "-", "%m", "-", "%d", "_", "%H", "-", "%M", "_manual">>),
      strftime(StrptimeDefault, <<"%Y", "-", "%m", "-", "%d">>) }

(* One name generated from an instant and parsed back, or another name
   parsed, as _get_images does for each listed image. *)
InitName ==
    /\ RunIdle
    /\ \/ passIn \in { <<[utcnow |-> t, name |-> ImageNameText(t)]>> : t \in Instants }
       \/ passIn \in { <<[utcnow |-> StrptimeDefault, name |-> n]>> : n \in OtherNames }
    /\ passOut = <<>>

ParseName ==
    /\ passIn # <<>>
    /\ passOut = <<>>
    /\ passOut' = <<strptime(passIn[1].name, IMAGE_NAME_TEMPLATE)>>
    /\ UNCHANGED <<runVars, passIn>>

SpecName == InitName /\ [][ParseName]_vars

---------------------------------------------------------------------------
(* One call of parse_rax_id_data on its own: service catalogs of up to
   MaxEntries entries, of the two kinds the code looks for and of two it
   must pass over, each with endpoints in some of the regions. *)

OtherURL == [r \in {"DFW", "ORD"} |->
               IF r = "DFW" THEN "https://dfw.other" ELSE "https://ord.other"]

EndpointRegions == {<<>>, <<"DFW">>, <<"ORD">>, <<"ORD", "DFW">>}

EntryChoices ==
    { Entry("compute", "cloudServersOpenStack", ServersURL, rs) : rs \in EndpointRegions }
    \cup { Entry("image", "cloudImages", ImagesURL, rs) : rs \in EndpointRegions }
    \cup { Entry("compute", "cloudServers", OtherURL, rs) : rs \in EndpointRegions }
    \cup { Entry("image", "cloudServersOpenStack", OtherURL, rs) : rs \in EndpointRegions }

CatalogChoices ==
    UNION { { Catalog(entries) : entries \in [1..n -> EntryChoices] } : n \in 0..MaxEntries }

(* Regions a server may be configured with: two the catalogs know, one
   they do not. *)
RegionChoices == {"DFW", "ORD", "SYD"}

InitCatalog ==
    /\ RunIdle
    /\ passIn \in { <<[rax_id_data |-> c, region |-> r]>> :
                       c \in CatalogChoices, r \in RegionChoices }
    /\ passOut = <<>>

ParseCatalog ==
    /\ passIn # <<>>
    /\ passOut = <<>>
    /\ passOut' = <<parse_rax_id_data(passIn[1].rax_id_data, passIn[1].region)>>
    /\ UNCHANGED <<runVars, passIn>>

SpecCatalog == InitCatalog /\ [][ParseCatalog]_vars

---------------------------------------------------------------------------
(* Configuration: data.ConfigData, ServerData.enabled and main.read_config,
   step by step, and what a caller can do to the ConfigData it returns.
   The config file is the text of ConcurrentWorkers (or its absence) and
   the server sections in file order (a section's name is its position);
   the command line is --server and --force.  passIn holds the inputs,
   passOut the call's state. *)

(* A value of the config file: absent, a numeral, or other text *)
Numeral(n) == [kind |-> "numeral", n |-> n]
OtherText == [kind |-> "text", n |-> 0]
Absent == [kind |-> "absent", n |-> 0]

WorkersTexts == { Numeral(n) : n \in -1..2 } \cup {OtherText, Absent}

(* The Enabled key of a section *)
EnabledTexts == {"absent", "true", "false", "maybe"}

Sections ==
    UNION { [1..n -> [Enabled : EnabledTexts, complete : BOOLEAN]] : n \in 0..MaxServers }

(* cfg_parser["DEFAULT"]: the section every ConfigParser has; the server
   sections are numbered from 1 *)
DefaultSection == 0

(* --server: not given, or a name (DEFAULT, a configured or an unconfigured
   one); --force needs --server (main.get_args) *)
CommandLines ==
    { a \in [given : BOOLEAN, server : DefaultSection..(MaxServers + 1),
             force : BOOLEAN] :
        ~ a.given => (a.server = DefaultSection /\ ~ a.force) }

(* args.server in cfg_parser, and cfg_parser[args.server] *)
InParser(name, sections) == name = DefaultSection \/ name \in 1..Len(sections)
SectionOf(name, sections) ==
    IF name = DefaultSection THEN [Enabled |-> "absent", complete |-> FALSE]
    ELSE sections[name]

ConfigInputs == [workers : WorkersTexts, sections : Sections, args : CommandLines]

(* getint / int(): the integer a text stands for; ValueError for other
   text *)
ToInt(text) ==
    IF text.kind = "numeral"
    THEN [raised |-> "none", value |-> text.n]
    ELSE [raised |-> "ValueError", value |-> 0]

(* ConfigData.__init__: if self._concurrent_workers <= 0: raise ValueError *)
IsValidWorkersOrZero(n) == n >= 0
IsValidWorkers(n) == n > 0

(* ServerData.enabled: auto_enable, else the section's Enabled as a boolean
   (getboolean, fallback False; ValueError for text that is no boolean) *)
enabled(value) ==
    IF value.auto_enable THEN [raised |-> "none", value |-> TRUE]
    ELSE IF value.Enabled = "maybe" THEN [raised |-> "ValueError", value |-> FALSE]
    ELSE [raised |-> "none", value |-> value.Enabled = "true"]

(* imageroller.data.ServerData(name, config, auto_enable, force) *)
ConfiguredServer(name, section, auto_enable, force) ==
    [kind |-> "ServerData", name |-> name, Enabled |-> section.Enabled,
     auto_enable |-> auto_enable, force |-> force]

(* An object without name and enabled attributes (the tests' dict()) *)
NotServerData ==
    [kind |-> "dict", name |-> 0, Enabled |-> "absent", auto_enable |-> FALSE,
     force |-> FALSE]

(* self._server_data[value.name] = value on an OrderedDict: a new key goes
   last, an existing key keeps its place *)
StoreByName(store, value) ==
    IF \E k \in 1..Len(store) : store[k].name = value.name
    THEN [k \in 1..Len(store) |->
            IF store[k].name = value.name THEN value ELSE store[k]]
    ELSE Append(store, value)

(* ConfigData.server_data setter *)
server_data_setterStoresAll(store, value) ==
    IF value.kind = "ServerData"
    THEN [raised |-> "none", store |-> StoreByName(store, value)]
    ELSE [raised |-> "ValueError", store |-> store]
server_data_setter(store, value) ==
    IF value.kind = "ServerData"
    THEN IF enabled(value).raised # "none"
         THEN [raised |-> enabled(value).raised, store |-> store]
         ELSE IF enabled(value).value
              THEN [raised |-> "none", store |-> StoreByName(store, value)]
              ELSE [raised |-> "none", store |-> store]
    ELSE [raised |-> "ValueError", store |-> store]

(* if len(config_data.server_data) > 0 *)
HasServersAlways(store) == TRUE
HasServers(store) == Len(store) > 0

ConfigState(pc, raised, workers, store, idx, assigns) ==
    [pc |-> pc, raised |-> raised, concurrent_workers |-> workers,
     server_data |-> store, idx |-> idx, assigns |-> assigns, assigned |-> <<>>]

InitConfig ==
    /\ RunIdle
    /\ passIn \in { <<in>> : in \in ConfigInputs }
    /\ passOut = <<>>

(* read_config, lines 133-138: the required DEFAULT key, then ConfigData *)
ReadConfigBegin ==
    /\ passIn # <<>>
    /\ passOut = <<>>
    /\ LET text == passIn[1].workers
           n == ToInt(text)
       IN passOut' =
            IF text.kind = "absent"
            THEN <<ConfigState("raised", "ConfigError", 0, <<>>, 1, 0)>>
            ELSE IF n.raised # "none"
            THEN <<ConfigState("raised", n.raised, 0, <<>>, 1, 0)>>
            ELSE IF ~ IsValidWorkers(n.value)
            THEN <<ConfigState("raised", "ValueError", 0, <<>>, 1, 0)>>
            ELSE <<ConfigState("servers", "none", n.value, <<>>, 1, 0)>>
    /\ UNCHANGED <<runVars, passIn>>

(* The result of one assignment config_data.server_data = value; assigned
   remembers the value of the latest assignment *)
AfterAssign(state, value, pc) ==
    LET set == server_data_setter(state.server_data, value)
    IN IF set.raised # "none"
       THEN [state EXCEPT !.pc = "raised", !.raised = set.raised,
                          !.assigned = <<value>>]
       ELSE [state EXCEPT !.pc = pc, !.server_data = set.store,
                          !.assigned = <<value>>]

(* read_config, lines 139-147: --server given *)
ReadConfigServerArg ==
    /\ passOut # <<>>
    /\ passOut[1].pc = "servers"
    /\ passIn[1].args.given
    /\ LET name == passIn[1].args.server
       IN passOut' =
            IF InParser(name, passIn[1].sections)
            THEN <<AfterAssign(passOut[1],
                       ConfiguredServer(name, SectionOf(name, passIn[1].sections),
                                        TRUE, passIn[1].args.force),
                       "check")>>
            ELSE <<[passOut[1] EXCEPT !.pc = "raised", !.raised = "ConfigError"]>>
    /\ UNCHANGED <<runVars, passIn>>

(* read_config, lines 148-157: one iteration of the loop over the sections *)
ReadConfigSection ==
    /\ passOut # <<>>
    /\ passOut[1].pc = "servers"
    /\ ~ passIn[1].args.given
    /\ LET i == passOut[1].idx
       IN passOut' =
            IF i > Len(passIn[1].sections)
            THEN <<[passOut[1] EXCEPT !.pc = "check"]>>
            ELSE IF ~ passIn[1].sections[i].complete
            THEN <<[passOut[1] EXCEPT !.pc = "raised", !.raised = "ConfigError"]>>
            ELSE <<[AfterAssign(passOut[1],
                        ConfiguredServer(i, passIn[1].sections[i], FALSE,
                                         passIn[1].args.force),
                        "servers") EXCEPT !.idx = i + 1]>>
    /\ UNCHANGED <<runVars, passIn>>

(* read_config, lines 158-162 *)
ReadConfigEnd ==
    /\ passOut # <<>>
    /\ passOut[1].pc = "check"
    /\ passOut' =
         IF HasServers(passOut[1].server_data)
         THEN <<[passOut[1] EXCEPT !.pc = "returned"]>>
         ELSE <<[passOut[1] EXCEPT !.pc = "raised", !.raised = "ConfigError"]>>
    /\ UNCHANGED <<runVars, passIn>>

(* A holder of the returned ConfigData assigns server_data: any ServerData
   or another object.  An exception is the caller's; the object stays. *)
AssignedValues ==
    { ConfiguredServer(name, [Enabled |-> e], FALSE, FALSE) :
        name \in {1, 2}, e \in EnabledTexts }
    \cup { ConfiguredServer(name, [Enabled |-> "absent"], TRUE, FALSE) :
             name \in {1, 2} }
    \cup {NotServerData}

AssignServerData ==
    /\ passOut # <<>>
    /\ passOut[1].pc = "returned"
    /\ passOut[1].assigns < MaxAssigns
    /\ \E value \in AssignedValues :
         LET set == server_data_setter(passOut[1].server_data, value)
         IN passOut' = <<[passOut[1] EXCEPT !.server_data = set.store,
                                            !.raised = set.raised,
                                            !.assigned = <<value>>,
                                            !.assigns = @ + 1]>>
    /\ UNCHANGED <<runVars, passIn>>

(* config_data.concurrent_workers = n: the property has no setter
   (AttributeError) *)
AssignConcurrentWorkers ==
    /\ passOut # <<>>
    /\ passOut[1].pc = "returned"
    /\ passOut[1].assigns < MaxAssigns
    /\ passOut' = <<[passOut[1] EXCEPT !.raised = "AttributeError",
                                       !.assigned = <<>>,
                                       !.assigns = @ + 1]>>
    /\ UNCHANGED <<runVars, passIn>>

NextConfig ==
    \/ ReadConfigBegin
    \/ ReadConfigServerArg
    \/ ReadConfigSection
    \/ ReadConfigEnd
    \/ AssignServerData
    \/ AssignConcurrentWorkers

SpecConfig == InitConfig /\ [][NextConfig]_vars

---------------------------------------------------------------------------
(* Properties *)

Count(seq, x) == Cardinality({ k \in 1..Len(seq) : seq[k] = x })

Servers == 1..Len(server_data)

(* The servers the manager has put on the queue *)
Enqueued == { putLog[k] : k \in { j \in 1..Len(putLog) : putLog[j] # None } }

(* (roller, position) pairs at which server i was dequeued / processed *)
Dequeues(i) ==
    { <<w, k>> \in (DOMAIN taken) \X (1..(Len(putLog))) :
        k <= Len(taken[w]) /\ taken[w][k] = i }
Passes(i) ==
    { <<w, k>> \in (DOMAIN handled) \X (1..(Len(putLog))) :
        k <= Len(handled[w]) /\ handled[w][k].server = i }

RunReturned == mgrPc = "done"

(* C1: every server the manager puts on the queue is dequeued by exactly one
   roller and processed exactly once before the run ends: never dequeued or
   processed twice, never by two rollers, processed by the roller that
   dequeued it, and once the manager is past the barrier none is left
   unprocessed. *)
C1_ProcessedExactlyOnce ==
    \A i \in Servers :
        /\ Cardinality(Dequeues(i)) <= 1
        /\ Cardinality(Passes(i)) <= 1
        /\ \A p \in Passes(i) : \E d \in Dequeues(i) : d[1] = p[1]
        /\ Count(putLog, i) <= 1
        /\ (RunReturned /\ i \in Enqueued) =>
              Cardinality(Dequeues(i)) = 1 /\ Cardinality(Passes(i)) = 1

C1_Witness ==
    /\ RunReturned
    /\ Cardinality(Enqueued) >= 2
    /\ \E v, w \in DOMAIN handled : v # w /\ handled[v] # <<>> /\ handled[w] # <<>>

(* C2: a pass makes at most one kind of request (one create, or deletes,
   never both), and makes neither when the listing holds a template-named
   image with status SAVING. *)
ListedSaving(in) ==
    /\ in.response.status_code = HTTP_OK
    /\ in.response.json
    /\ \E k \in 1..Len(in.response.images) :
          /\ in.response.images[k].status = "SAVING"
          /\ in.response.images[k].name.stamped
          /\ in.response.images[k].name.text = Suffix

C2_OneKindOfRequest ==
    passOut # <<>> =>
        LET out == passOut[1].result
        IN /\ Len(out.created) <= 1
           /\ ~ (out.created # <<>> /\ out.deleted # <<>>)
           /\ ListedSaving(passIn[1]) => (out.created = <<>> /\ out.deleted = <<>>)

(* A listing with a finished-looking SAVING image beside an old ACTIVE one,
   for a server whose policy would otherwise ask for a new image. *)
C2_Witness ==
    /\ passOut # <<>>
    /\ ListedSaving(passIn[1])
    /\ ~ passIn[1].sd.force
    /\ \E k \in 1..Len(passIn[1].response.images) :
          /\ passIn[1].response.images[k].status = "SAVING"
          /\ passIn[1].response.images[k].progress = 100
          /\ passIn[1].response.images[k].name.text = Suffix
    /\ \E k \in 1..Len(passIn[1].response.images) :
          /\ passIn[1].response.images[k].status = "ACTIVE"
          /\ passIn[1].response.images[k].name.text = Suffix
          /\ passIn[1].utcnow - passIn[1].response.images[k].updated
                > passIn[1].sd.retain_image_minutes * SecondsPerMinute
    /\ passOut[1].result.created = <<>>
    /\ passOut[1].result.deleted = <<>>

(* C3: once the manager is past the barrier every roller has dequeued
   exactly one sentinel and the queue is empty (no server, no sentinel);
   no roller ever dequeues more than one sentinel. *)
C3_OneSentinelEach ==
    /\ \A w \in DOMAIN taken : Count(taken[w], None) <= 1
    /\ RunReturned =>
          /\ \A w \in DOMAIN taken : Count(taken[w], None) = 1
          /\ server_queue = <<>>

C3_Witness ==
    /\ RunReturned
    /\ concurrent_workers >= 2
    /\ Enqueued # {}
    /\ \E w \in DOMAIN taken : Len(taken[w]) = 1

(* C4: however often and from however many threads stop() is called, the
   sentinels put on the queue never exceed concurrent_workers, and are
   exactly concurrent_workers once any stop() call has returned. *)
SomeStopReturned ==
    \/ mgrPc \in {"wait", "barrier", "done"}
    \/ \E c \in Stoppers : stopCalls[c] > 0

C4_StopIdempotent ==
    /\ Count(putLog, None) <= concurrent_workers
    /\ SomeStopReturned => Count(putLog, None) = concurrent_workers
    /\ Cardinality(stop_lock) <= 1

C4_Witness ==
    /\ RunReturned
    /\ \E c \in Stoppers : stopCalls[c] >= 1
    /\ Count(putLog, None) = concurrent_workers
    /\ Enqueued # {}

(* A second caller arrives while another is inside stop(). *)
C4_WitnessConcurrent ==
    /\ mgrPc = "stop"
    /\ \E c \in Stoppers : stopPc[c] = "poisoning" /\ stopK[c] > 0

(* C5: with every thread that can step eventually stepping, a run whose
   manager was constructed always ends: every roller receives a sentinel,
   all rollers and the manager pass the barrier, and the process exits. *)
AllPastBarrier ==
    /\ mgrPc = "done"
    /\ \A w \in DOMAIN rollerPc : rollerPc[w] = "exited" /\ Count(taken[w], None) >= 1
    /\ Len(rollerPc) = concurrent_workers

C5_RunTerminates ==
    (mainPc = "start") ~> (AllPastBarrier /\ mainPc = "exited")

C5_Witness ==
    /\ AllPastBarrier
    /\ mainPc = "exited"
    /\ concurrent_workers >= 2
    /\ Cardinality(Enqueued) >= 2
    /\ \E w \in DOMAIN handled : \E k \in 1..Len(handled[w]) : handled[w][k].raised

(* C6: exactly concurrent_workers rollers exist once the manager is
   constructed, the barrier has concurrent_workers + 1 parties, and no
   thread is past the barrier unless every roller has dequeued its sentinel
   and the manager has left its loop and returned from stop(). *)
SomeonePastBarrier ==
    \/ mgrPc = "done"
    \/ \E w \in DOMAIN rollerPc : rollerPc[w] = "exited"

C6_PoolAndBarrier ==
    /\ mainPc \notin {"execute", "except", "exited"} =>
          /\ Len(rollerPc) = concurrent_workers
          /\ barrierParties = concurrent_workers + 1
    /\ mainPc \in {"execute", "except"} => rollerPc = <<>>
    /\ SomeonePastBarrier =>
          /\ \A w \in DOMAIN rollerPc : Count(taken[w], None) = 1
          /\ mgrPc \in {"wait", "barrier", "done"}
          /\ is_stopping
          /\ Count(putLog, None) = concurrent_workers

C6_Witness ==
    /\ concurrent_workers >= 2
    /\ barrierWaiting = (Rollers \cup {Manager}) \ {1}
    /\ rollerPc[1] = "process"

(* C7: an error raised by a roller's pass stays in that roller's loop: the
   step in which it is raised puts the roller back at get() and changes
   neither the manager, nor the main thread, nor another roller; and the
   servers enqueued are all processed by the time the run returns. *)
RaisedIn(w) ==
    /\ Len(handled'[w]) = Len(handled[w]) + 1
    /\ handled'[w][Len(handled'[w])].raised

C7_ErrorStaysInRoller ==
    /\ [][\A w \in DOMAIN rollerPc :
            RaisedIn(w) =>
                /\ rollerPc'[w] = "get"
                /\ \A v \in DOMAIN rollerPc \ {w} : rollerPc'[v] = rollerPc[v]
                /\ UNCHANGED <<mgrPc, mgrIdx, mainPc, exitCode, server_queue>>]_vars
    /\ [](RunReturned => \A i \in Enqueued : Cardinality(Passes(i)) = 1)

(* A roller whose first pass raised went on to process another server. *)
C7_Witness ==
    \E w \in DOMAIN handled :
        /\ Len(handled[w]) >= 2
        /\ handled[w][1].raised
        /\ RunReturned

(* C8: a server whose id lookup fails (no listed server has its name, or
   the lookup raises) is never enqueued, and every other server whose
   lookup would succeed is looked up, enqueued and processed. *)
LookupSucceeds(i) ==
    /\ servers_api[i].status_code = HTTP_OK
    /\ servers_api[i].json
    /\ \E k \in 1..Len(servers_api[i].servers) :
          servers_api[i].servers[k].name = server_data[i].name

C8_FailedLookupSkipsOnlyThatServer ==
    \A i \in Servers :
        /\ ~ LookupSucceeds(i) => i \notin Enqueued
        /\ (LookupSucceeds(i) /\ mgrPc \in {"wait", "barrier", "done"}) =>
              i \in Enqueued /\ server_data[i].server_id # None
        /\ (LookupSucceeds(i) /\ RunReturned) => Cardinality(Passes(i)) = 1

(* C9: when authentication fails, the identity response is malformed, or a
   configured server's region has no compute endpoint or no image endpoint
   in the catalog, no roller is ever created or started, nothing is ever
   enqueued, the manager thread never runs, and the exit code is 1. *)
HasEndpoint(catalogs, type, name, region) ==
    \E k \in 1..Len(catalogs) :
        /\ catalogs[k].type = type
        /\ catalogs[k].name = name
        /\ \E e \in 1..Len(catalogs[k].endpoints) :
              catalogs[k].endpoints[e].region = region

IdentityFailed ==
    /\ ident_response # NotCalled
    /\ \/ ident_response.status_code # HTTP_OK
       \/ ident_response.content.kind # "catalog"
       \/ \E i \in Servers :
             \/ ~ HasEndpoint(ident_response.content.serviceCatalog, "compute",
                              "cloudServersOpenStack", server_data[i].region)
             \/ ~ HasEndpoint(ident_response.content.serviceCatalog, "image",
                              "cloudImages", server_data[i].region)

C9_IdentityFailureAborts ==
    IdentityFailed =>
        /\ rollerPc = <<>>
        /\ putLog = <<>>
        /\ server_queue = <<>>
        /\ mgrPc = "new"
        /\ mainPc \in {"except", "exited"}
        /\ exitCode # "0"
        /\ mainPc = "exited" => exitCode = "1"

(* One URL of the second server is missing: the first server already has
   its token and URLs, and the run has exited with code 1. *)
C9_Witness ==
    /\ IdentityFailed
    /\ mainPc = "exited"
    /\ exitCode = "1"
    /\ ident_response.status_code = HTTP_OK
    /\ ident_response.content.kind = "catalog"
    /\ Len(server_data) >= 2
    /\ server_data[1].servers_url # Unset
    /\ HasEndpoint(ident_response.content.serviceCatalog, "compute",
                   "cloudServersOpenStack", server_data[2].region)

(* C10: once identity resolution has succeeded the exit code is never 1, and
   it is 0 when the process exits, whatever lookups and passes failed. *)
IdentitySucceeded == ident_response # NotCalled /\ ~ IdentityFailed

C10_ExitZeroAfterIdentity ==
    IdentitySucceeded =>
        /\ exitCode # "1"
        /\ mainPc = "exited" => exitCode = "0"

C10_Witness ==
    /\ IdentitySucceeded
    /\ mainPc = "exited"
    /\ exitCode = "0"
    /\ \E i \in Servers : ~ LookupSucceeds(i)
    /\ \E w \in DOMAIN handled : \E k \in 1..Len(handled[w]) : handled[w][k].raised

---------------------------------------------------------------------------
(* Properties of one pass (SpecPass) *)

PassDone == passOut # <<>>

(* The pass got a listing: GET images/detail answered 200 with JSON. *)
Listed ==
    /\ passIn[1].response.status_code = HTTP_OK
    /\ passIn[1].response.json

(* Positions of the listing whose image name parses under the template *)
Ours ==
    { k \in 1..Len(passIn[1].response.images) :
        /\ passIn[1].response.images[k].name.stamped
        /\ passIn[1].response.images[k].name.text = Suffix }

OurSaving == { k \in Ours : passIn[1].response.images[k].status = "SAVING" }
OurActive == { k \in Ours : passIn[1].response.images[k].status = "ACTIVE" }

Age(stamp) == passIn[1].utcnow - stamp
RetainWindow == passIn[1].sd.retain_image_minutes * SecondsPerMinute
SaveTimeout == passIn[1].sd.save_timeout_minutes * SecondsPerMinute

(* The name a create request of this pass carries *)
NameOfNow ==
    [stamped |-> TRUE, minute |-> passIn[1].utcnow \div SecondsPerMinute,
     text |-> Suffix]

CreateIssued == passOut[1].result.created # <<>>
DeleteIssued == { passOut[1].result.deleted[k] : k \in 1..Len(passOut[1].result.deleted) }

(* C11 as stated: with force set the pass always issues the create request,
   whatever the listed images are (a template-named SAVING image included). *)
C11_ForceAlwaysCreates ==
    (PassDone /\ Listed /\ passIn[1].sd.force) =>
        passOut[1].result.created = <<NameOfNow>>

(* C11 amended: with force set and no template-named image SAVING the pass
   issues exactly the create request, whatever the other images are; while
   a template-named image is SAVING it issues none, force or not. *)
C11_ForceCreatesUnlessSaving ==
    (PassDone /\ Listed /\ passIn[1].sd.force) =>
        /\ OurSaving = {} =>
              /\ passOut[1].result.created = <<NameOfNow>>
              /\ ~ passOut[1].result.raised
        /\ OurSaving # {} => ~ CreateIssued

(* force with a fresh ACTIVE image beside an expired one *)
C11_Witness ==
    /\ PassDone /\ Listed /\ passIn[1].sd.force
    /\ OurSaving = {}
    /\ \E k \in OurActive : Age(passIn[1].response.images[k].created) < RetainWindow
    /\ \E k \in OurActive : Age(passIn[1].response.images[k].updated) > RetainWindow
    /\ passOut[1].result.created = <<NameOfNow>>

(* C12: with force set the pass issues no delete request, whatever the
   statuses and ages of the images. *)
C12_ForceNeverDeletes ==
    (PassDone /\ passIn[1].sd.force) => passOut[1].result.deleted = <<>>

(* force with two expired ACTIVE images and no fresh one *)
C12_Witness ==
    /\ PassDone /\ Listed /\ passIn[1].sd.force
    /\ Cardinality(OurActive) >= 2
    /\ \A k \in OurActive : Age(passIn[1].response.images[k].updated) > RetainWindow
    /\ \A k \in OurActive : Age(passIn[1].response.images[k].created) > RetainWindow
    /\ passOut[1].result.deleted = <<>>

(* Template-named ACTIVE images older than the retention window (by
   updated), and those within it (by created) *)
OurExpired ==
    { k \in OurActive : Age(passIn[1].response.images[k].updated) > RetainWindow }
OurFresh ==
    { k \in OurActive : Age(passIn[1].response.images[k].created) < RetainWindow }

(* No other template-named ACTIVE image is newer than image k *)
NoFresherActive(k) ==
    ~ \E j \in OurActive \ {k} :
         \/ passIn[1].response.images[j].created > passIn[1].response.images[k].created
         \/ passIn[1].response.images[j].updated > passIn[1].response.images[k].updated

(* Image k got its delete request, or an earlier delete request of the pass
   raised (the pass ends there; image ids are list positions). *)
DeletedUnlessAbandoned(k) ==
    \/ k \in DeleteIssued
    \/ /\ passOut[1].result.raised
       /\ \E d \in DeleteIssued : d < k

(* C13 as stated: without force, a template-named ACTIVE image past the
   retention window is in the pass's delete set when no fresher ACTIVE image
   exists. *)
C13_ExpiredDeletedWhenNoFresher ==
    (PassDone /\ Listed /\ ~ passIn[1].sd.force) =>
        \A k \in OurExpired : NoFresherActive(k) => k \in DeleteIssued

(* C13 amended: without force, with no template-named image SAVING and some
   template-named ACTIVE image within the retention window (by created),
   every template-named ACTIVE image past the window (by updated) gets a
   delete request, unless an earlier delete request of the pass raised. *)
C13_ExpiredDeletedBesideFresh ==
    (PassDone /\ Listed /\ ~ passIn[1].sd.force /\ OurSaving = {} /\ OurFresh # {}) =>
        \A k \in OurExpired : DeletedUnlessAbandoned(k)

(* an expired image deleted beside a different, fresh one *)
C13_Witness ==
    /\ PassDone /\ Listed /\ ~ passIn[1].sd.force /\ OurSaving = {}
    /\ \E k \in OurExpired : \E j \in OurFresh \ OurExpired :
          /\ k \in DeleteIssued
          /\ j \notin DeleteIssued
          /\ Age(passIn[1].response.images[k].created) > RetainWindow

(* Template-named SAVING images whose last update is older than the save
   timeout *)
OurOverdue ==
    { k \in OurSaving : Age(passIn[1].response.images[k].updated) > SaveTimeout }

NothingIssued ==
    /\ passOut[1].result.created = <<>>
    /\ passOut[1].result.deleted = <<>>

(* C14 as stated: a template-named SAVING image past the save timeout makes
   the pass take the timed-out outcome and issue nothing, at every progress
   value. *)
C14_OverdueTimesOut ==
    (PassDone /\ Listed /\ OurOverdue # {}) =>
        /\ passOut[1].result.branch = "timed_out"
        /\ NothingIssued

(* C14 amended: the pass takes the timed-out outcome exactly when some
   template-named SAVING image past the save timeout has progress below
   100; with only finished-looking (progress 100) overdue images the outcome
   is the waiting one; either way nothing is issued. *)
C14_OverdueUnfinishedTimesOut ==
    (PassDone /\ Listed /\ OurSaving # {}) =>
        /\ NothingIssued
        /\ ~ passOut[1].result.raised
        /\ passOut[1].result.branch =
              IF \E k \in OurOverdue : passIn[1].response.images[k].progress < 100
              THEN "timed_out" ELSE "waiting"

(* an overdue image at progress 50 listed after an overdue one at 100 *)
C14_Witness ==
    /\ PassDone /\ Listed
    /\ \E k \in OurOverdue : \E j \in OurOverdue :
          /\ j < k
          /\ passIn[1].response.images[j].progress = 100
          /\ passIn[1].response.images[k].progress < 100
    /\ passOut[1].result.branch = "timed_out"

(* C15: when the listing has template-named SAVING images and each of them
   has progress below 100 and now - updated <= save timeout, the outcome is
   the waiting one: no create, no delete, no timeout reported. *)
C15_WithinTimeoutWaits ==
    (/\ PassDone /\ Listed /\ OurSaving # {}
     /\ \A k \in OurSaving :
           /\ passIn[1].response.images[k].progress < 100
           /\ Age(passIn[1].response.images[k].updated) <= SaveTimeout) =>
        /\ passOut[1].result.branch = "waiting"
        /\ NothingIssued
        /\ ~ passOut[1].result.raised

(* a SAVING image exactly at the timeout, beside an expired ACTIVE one *)
C15_Witness ==
    /\ PassDone /\ Listed
    /\ \E k \in OurSaving :
          /\ passIn[1].response.images[k].progress < 100
          /\ Age(passIn[1].response.images[k].updated) = SaveTimeout
    /\ OurSaving \cap OurOverdue = {}
    /\ OurExpired # {}
    /\ passOut[1].result.branch = "waiting"

(* C16: without force, a template-named ACTIVE image with now - created
   below the retention window keeps the pass from issuing a create request. *)
C16_FreshActiveBlocksCreate ==
    (PassDone /\ Listed /\ ~ passIn[1].sd.force /\ OurFresh # {}) => ~ CreateIssued

(* the only fresh image (by created) is not fresh by updated *)
C16_Witness ==
    /\ PassDone /\ Listed /\ ~ passIn[1].sd.force
    /\ OurSaving = {}
    /\ OurFresh # {}
    /\ \A k \in OurFresh : Age(passIn[1].response.images[k].updated) >= RetainWindow
    /\ passOut[1].result.branch = "delete"

(* The delete requests of the pass went to distinct images, in list order *)
DeletedInOrder ==
    \A a, b \in 1..Len(passOut[1].result.deleted) :
        a < b => passOut[1].result.deleted[a] < passOut[1].result.deleted[b]

(* C17 as stated: without force, with no template-named image SAVING and a
   fresh ACTIVE image, the images the pass deletes are exactly the
   template-named ACTIVE images with now - updated above the retention
   window, and no create is issued. *)
C17_DeletesExactlyExpired ==
    (PassDone /\ Listed /\ ~ passIn[1].sd.force /\ OurSaving = {} /\ OurFresh # {}) =>
        /\ DeleteIssued = OurExpired
        /\ ~ CreateIssued

(* C17 amended: under the same conditions no create is issued and the
   delete requests go, once each and in list order, to exactly the expired
   images when no delete request raises; when one raises the pass ends
   there, with the expired images up to that one requested. *)
C17_DeletesExpiredUntilRaise ==
    (PassDone /\ Listed /\ ~ passIn[1].sd.force /\ OurSaving = {} /\ OurFresh # {}) =>
        /\ ~ CreateIssued
        /\ DeletedInOrder
        /\ DeleteIssued \subseteq OurExpired
        /\ ~ passOut[1].result.raised => DeleteIssued = OurExpired
        /\ passOut[1].result.raised =>
              /\ DeleteIssued # {}
              /\ \A k \in OurExpired : \A d \in DeleteIssued : k < d => k \in DeleteIssued
              /\ \E d \in DeleteIssued :
                    /\ \A e \in DeleteIssued : e <= d
                    /\ passOut[1].deletes[d] = 0

(* one expired image deleted, one image on the boundary kept, and a delete
   request answered with a failure status *)
C17_Witness ==
    /\ PassDone /\ Listed /\ ~ passIn[1].sd.force /\ OurSaving = {} /\ OurFresh # {}
    /\ ~ passOut[1].result.raised
    /\ DeleteIssued # {}
    /\ \E k \in OurActive \ DeleteIssued :
          Age(passIn[1].response.images[k].updated) = RetainWindow
    /\ \E d \in DeleteIssued : passOut[1].deletes[d] = 500

(* C18: when no listed image has a template name (no image at all, or only
   foreign ones of any status), the pass issues the create request, named
   from the pass's utcnow, with or without force, and deletes nothing. *)
C18_NoTemplateImageCreates ==
    (PassDone /\ Listed /\ Ours = {}) =>
        /\ passOut[1].result.branch = "create"
        /\ passOut[1].result.created = <<NameOfNow>>
        /\ passOut[1].result.deleted = <<>>
        /\ ~ passOut[1].result.raised

(* only foreign images, one of them SAVING, no force *)
C18_Witness ==
    /\ PassDone /\ Listed /\ Ours = {} /\ ~ passIn[1].sd.force
    /\ Len(passIn[1].response.images) >= 2
    /\ \E k \in 1..Len(passIn[1].response.images) :
          passIn[1].response.images[k].status = "SAVING"
    /\ \E k \in 1..Len(passIn[1].response.images) :
          passIn[1].response.images[k].name.stamped
    /\ passOut[1].result.created = <<NameOfNow>>

(* Positions of the listing whose image name does not parse *)
Foreign == (1..Len(passIn[1].response.images)) \ Ours

(* The listing without its image at position k (ids are kept) *)
WithoutImage(response, k) ==
    [response EXCEPT !.images =
        [j \in 1..(Len(@) - 1) |-> IF j < k THEN @[j] ELSE @[j + 1]]]

(* C19: no delete request goes to a foreign image, and what the pass does is
   what it does on the same listing without that image. *)
C19_ForeignUntouched ==
    (PassDone /\ Listed) =>
        /\ DeleteIssued \cap Foreign = {}
        /\ \A k \in Foreign :
              passOut[1].result =
                  process_server(passIn[1].utcnow, passIn[1].sd,
                                 WithoutImage(passIn[1].response, k),
                                 passOut[1].deletes)

(* a foreign image, SAVING or old and ACTIVE, listed before one of ours
   that the pass deletes *)
C19_Witness ==
    /\ PassDone /\ Listed
    /\ 1 \in Foreign
    /\ passIn[1].response.images[1].name.stamped
    /\ 2 \in DeleteIssued
    /\ passOut[1].result.branch = "delete"

---------------------------------------------------------------------------
(* Properties of a run (Spec), continued *)

(* In seq no server comes after a sentinel *)
ServersThenSentinels(seq) ==
    \A a, b \in 1..Len(seq) : (a < b /\ seq[a] = None) => seq[b] = None

SomeSentinelTaken == \E w \in DOMAIN taken : Count(taken[w], None) > 0

(* C20: no server is ever put on the queue after a sentinel: the puts, and
   the queue at every moment, are servers followed by sentinels, and a
   roller takes a sentinel only when the manager has left its loop and every
   enqueued server has been taken. *)
C20_ServersBeforeSentinels ==
    /\ ServersThenSentinels(putLog)
    /\ ServersThenSentinels(server_queue)
    /\ SomeSentinelTaken =>
          /\ mgrPc \in {"stop", "wait", "barrier", "done"}
          /\ \A i \in Enqueued : Cardinality(Dequeues(i)) = 1
          /\ \A k \in 1..Len(server_queue) : server_queue[k] = None

(* both servers and every sentinel are on the queue while a roller is busy *)
C20_Witness ==
    /\ Len(server_queue) >= 3
    /\ server_queue[1] # None
    /\ server_queue[Len(server_queue)] = None
    /\ Count(putLog, None) = concurrent_workers
    /\ \E w \in DOMAIN rollerPc : rollerPc[w] = "process"

(* The servers put on the queue, in the order of the puts *)
PutServers == SelectSeq(putLog, LAMBDA item : item # None)

(* C21: the servers put on the queue are a subsequence of server_data in
   its order (servers are numbered by their position in it), none is put
   twice, and none whose id lookup found no server of its name. *)
C21_EnqueuedInListOrder ==
    /\ \A a, b \in 1..Len(PutServers) : a < b => PutServers[a] < PutServers[b]
    /\ \A a \in 1..Len(PutServers) :
          /\ PutServers[a] \in Servers
          /\ LookupSucceeds(PutServers[a])
          /\ server_data[PutServers[a]].server_id # None

(* the first server's lookup found no server of its name, the second was
   enqueued and processed *)
C21_Witness ==
    /\ RunReturned
    /\ Len(server_data) >= 2
    /\ servers_api[1].status_code = HTTP_OK
    /\ servers_api[1].json
    /\ ~ LookupSucceeds(1)
    /\ PutServers = <<2>>
    /\ Cardinality(Passes(2)) = 1

(* Every roller thread has been started *)
AllRollersStarted ==
    /\ Len(rollerPc) = concurrent_workers
    /\ \A w \in DOMAIN rollerPc : rollerPc[w] # "new"

(* C22: no server is put on the queue before every roller thread has been
   started. *)
C22_RollersStartedBeforeEnqueue ==
    PutServers # <<>> => AllRollersStarted

(* Server i is in the hands of a roller whose pass has not returned *)
HeldInPass(i) ==
    \E w \in DOMAIN rollerPc : rollerPc[w] = "process" /\ rollerItem[w] = i

(* The manager has left its loop and every enqueued server has been
   processed, except at most one that a roller still holds in its pass. *)
AllButHungProcessed ==
    /\ mgrPc \in {"stop", "wait", "barrier", "done"}
    /\ \A i \in Enqueued : Cardinality(Passes(i)) = 1 \/ HeldInPass(i)
    /\ Cardinality({ i \in Enqueued : Passes(i) = {} }) <= 1
    /\ \A k \in 1..Len(server_queue) : server_queue[k] = None

(* C23: with two or more rollers, when the pass of one roller never returns,
   every other enqueued server is still eventually dequeued and processed
   (by the other rollers), and stays so. *)
C23_HungPassHoldsOnlyItsRoller ==
    (mainPc = "start" /\ concurrent_workers >= 2) ~> [] AllButHungProcessed

(* one roller still in its pass, while the others processed a server and
   wait at the barrier with the manager *)
C23_Witness ==
    /\ concurrent_workers >= 2
    /\ AllButHungProcessed
    /\ \E h \in DOMAIN rollerPc :
          /\ rollerPc[h] = "process"
          /\ \A w \in DOMAIN rollerPc \ {h} : rollerPc[w] = "barrier"
    /\ mgrPc = "barrier"
    /\ \E i \in Enqueued : Cardinality(Passes(i)) = 1

---------------------------------------------------------------------------
(* Properties of image names (SpecName) *)

(* The instant truncated to the minute *)
TruncatedToMinute(t) == [t EXCEPT !.second = 0, !.microsecond = 0]

Generated == passIn[1].name = strftime(passIn[1].utcnow, IMAGE_NAME_TEMPLATE)

(* C24: a generated name parses under the template (it passes the filter
   of _get_images), and parses to the instant it was generated from with
   second and microsecond zero. *)
C24_NameRoundTrip ==
    (passOut # <<>> /\ passIn[1].name \notin OtherNames) =>
        /\ passOut[1].ok
        /\ passOut[1].datetime.year = passIn[1].utcnow.year
        /\ passOut[1].datetime.month = passIn[1].utcnow.month
        /\ passOut[1].datetime.day = passIn[1].utcnow.day
        /\ passOut[1].datetime.hour = passIn[1].utcnow.hour
        /\ passOut[1].datetime.minute = passIn[1].utcnow.minute
        /\ passOut[1].datetime.second = 0
        /\ passOut[1].datetime.microsecond = 0

(* 2026-12-31 23:59:59.999999 went through the round trip *)
C24_Witness ==
    /\ passOut # <<>>
    /\ passIn[1].name \notin OtherNames
    /\ passIn[1].utcnow.second = 59
    /\ passIn[1].utcnow.microsecond = 999999
    /\ passIn[1].utcnow.minute = 59
    /\ passIn[1].name =
          <<"2", "0", "2", "6", "-", "1", "2", "-", "3", "1", "_", "2", "3", "-",
            "5", "9", "_imageroller">>
    /\ passOut[1].ok
    /\ passOut[1].datetime.minute = 59

---------------------------------------------------------------------------
(* Properties of endpoint resolution (SpecCatalog) *)

(* The publicURLs the catalog offers for a service in the region asked for *)
Offered(type, name) ==
    { passIn[1].rax_id_data.serviceCatalog[k].endpoints[e].publicURL :
        <<k, e>> \in
          { p \in (1..Len(passIn[1].rax_id_data.serviceCatalog)) \X (1..2) :
              /\ passIn[1].rax_id_data.serviceCatalog[p[1]].type = type
              /\ passIn[1].rax_id_data.serviceCatalog[p[1]].name = name
              /\ p[2] <= Len(passIn[1].rax_id_data.serviceCatalog[p[1]].endpoints)
              /\ passIn[1].rax_id_data.serviceCatalog[p[1]].endpoints[p[2]].region
                    = passIn[1].region } }

(* C25: parse_rax_id_data returns a servers URL exactly when a
   compute/cloudServersOpenStack entry has an endpoint for the region, and
   an images URL exactly when an image/cloudImages entry has one; each is
   the publicURL of such an endpoint; neither depends on the other. *)
C25_URLsResolveIndependently ==
    passOut # <<>> =>
        /\ passOut[1][1] # Unset <=> Offered("compute", "cloudServersOpenStack") # {}
        /\ passOut[1][1] # Unset => passOut[1][1] \in Offered("compute", "cloudServersOpenStack")
        /\ passOut[1][2] # Unset <=> Offered("image", "cloudImages") # {}
        /\ passOut[1][2] # Unset => passOut[1][2] \in Offered("image", "cloudImages")

(* the servers URL resolved from the first entry, no images URL, and a last
   entry of another service *)
C25_Witness ==
    /\ passOut # <<>>
    /\ Len(passIn[1].rax_id_data.serviceCatalog) >= 2
    /\ passIn[1].rax_id_data.serviceCatalog[1].name = "cloudServersOpenStack"
    /\ passIn[1].rax_id_data.serviceCatalog[1].type = "compute"
    /\ passIn[1].rax_id_data.serviceCatalog[2].name = "cloudImages"
    /\ passOut[1][1] = ServersURL["DFW"]
    /\ passOut[1][2] = Unset

(* The state of the read_config call, the ConfigData it built *)
Config == passOut[1]
IsConfig == passOut # <<>> /\ "assigned" \in DOMAIN passOut[1]
Stored(state) == { state.server_data[k] : k \in 1..Len(state.server_data) }
AutoOrConfigured(value) == value.auto_enable \/ value.Enabled = "true"
UniqueNames(store) ==
    \A j, k \in 1..Len(store) : store[j].name = store[k].name => j = k
AssignedNow == passOut' # passOut /\ IsConfig' /\ passOut'[1].assigned # <<>>

(* C26: every host stored in ConfigData.server_data has auto_enable or a
   configured Enabled of true, no two stored hosts share a name, an
   assignment changes the stored hosts only when it assigns such a host, and
   assigning an object without name and enabled attributes raises ValueError
   and leaves the stored hosts as they were. *)
C26_OnlyEnabledStored ==
    [][(IsConfig /\ IsConfig') =>
            /\ \A value \in Stored(passOut'[1]) :
                 value.kind = "ServerData" /\ AutoOrConfigured(value)
            /\ UniqueNames(passOut'[1].server_data)
            /\ passOut'[1].server_data # Config.server_data =>
                 /\ AssignedNow
                 /\ passOut'[1].assigned[1].kind = "ServerData"
                 /\ AutoOrConfigured(passOut'[1].assigned[1])
            /\ (AssignedNow /\ passOut'[1].assigned[1].kind # "ServerData") =>
                 /\ passOut'[1].raised = "ValueError"
                 /\ passOut'[1].server_data = Config.server_data]_vars

(* read_config stored one host and left a disabled section out, and a later
   assignment of an object without the attributes was refused *)
C26_Witness ==
    /\ IsConfig
    /\ Config.pc = "returned"
    /\ Config.assigns = MaxAssigns
    /\ Config.assigned = <<NotServerData>>
    /\ Config.raised = "ValueError"
    /\ Len(Config.server_data) = 1
    /\ \E k \in 1..Len(passIn[1].sections) : passIn[1].sections[k].Enabled = "false"

(* ConfigData.__init__ returned: read_config went on past line 138 *)
Constructed(state) == state.pc \in {"servers", "check", "returned"}
ConstructedNow == passOut = <<>> /\ IsConfig'
RejectedWorkers(text) ==
    text.kind = "text" \/ (text.kind = "numeral" /\ text.n <= 0)

(* C27: the ConcurrentWorkers of a constructed ConfigData is a positive
   integer, so a barrier of one party more has at least two; construction
   raises ValueError for zero, a negative number or text that is no integer;
   and no later step, an assignment to concurrent_workers included, changes
   the value. *)
C27_WorkersPositiveAndFixed ==
    [][IsConfig' =>
         /\ Constructed(passOut'[1]) =>
              /\ passOut'[1].concurrent_workers \in Nat \ {0}
              /\ BarrierSize(passOut'[1].concurrent_workers) >= 2
         /\ (ConstructedNow /\ RejectedWorkers(passIn[1].workers)) =>
              /\ passOut'[1].pc = "raised"
              /\ passOut'[1].raised = "ValueError"
         /\ (ConstructedNow /\ Constructed(passOut'[1])) =>
              passIn[1].workers = Numeral(passOut'[1].concurrent_workers)
         /\ IsConfig =>
              passOut'[1].concurrent_workers = Config.concurrent_workers]_vars

(* A returned ConfigData whose holder tried to assign concurrent_workers *)
C27_Witness ==
    /\ IsConfig
    /\ Config.pc = "returned"
    /\ Config.raised = "AttributeError"
    /\ Config.assigns > 0
    /\ Config.concurrent_workers = 1

(* The config and command line name an enabled host: the --server section
   (always enabled), or without --server a section whose Enabled is true *)
HasEnabledHost(in) ==
    IF in.args.given
    THEN InParser(in.args.server, in.sections)
    ELSE \E k \in 1..Len(in.sections) : in.sections[k].Enabled = "true"
NotBoolean(in) ==
    ~ in.args.given /\ \E k \in 1..Len(in.sections) : in.sections[k].Enabled = "maybe"
ReadConfigEnded == IsConfig /\ Config.pc \in {"returned", "raised"}

(* C28 as stated: read_config returns only when an enabled host is
   configured, with a non-empty host list, and whenever none is configured
   it raises ConfigError. *)
C28_NoHostRaisesConfigError ==
    ReadConfigEnded =>
      /\ Config.pc = "returned" =>
           (HasEnabledHost(passIn[1]) /\ Len(Config.server_data) > 0)
      /\ ~ HasEnabledHost(passIn[1]) =>
           (Config.pc = "raised" /\ Config.raised = "ConfigError")

(* C28: read_config returns only when an enabled host is configured, with a
   non-empty host list; when none is configured it raises, ConfigError
   unless a ConcurrentWorkers that is no positive integer or an Enabled that
   is no boolean raised ValueError first. *)
C28_NoHostRaises ==
    ReadConfigEnded =>
      /\ Config.pc = "returned" =>
           (HasEnabledHost(passIn[1]) /\ Len(Config.server_data) > 0)
      /\ ~ HasEnabledHost(passIn[1]) =>
           /\ Config.pc = "raised"
           /\ \/ Config.raised = "ConfigError"
              \/ /\ Config.raised = "ValueError"
                 /\ RejectedWorkers(passIn[1].workers) \/ NotBoolean(passIn[1])

(* Valid workers and complete sections, none of them enabled: the check at
   the end of read_config raised *)
C28_Witness ==
    /\ ReadConfigEnded
    /\ ~ HasEnabledHost(passIn[1])
    /\ Len(passIn[1].sections) > 0
    /\ \A k \in 1..Len(passIn[1].sections) :
         passIn[1].sections[k].complete /\ passIn[1].sections[k].Enabled # "maybe"
    /\ Config.idx > Len(passIn[1].sections)
    /\ Config.concurrent_workers > 0
    /\ Config.raised = "ConfigError"

(* Template-named ACTIVE images old by created and recent by updated *)
OurTouched ==
    { k \in OurActive :
        /\ Age(passIn[1].response.images[k].created) >= RetainWindow
        /\ Age(passIn[1].response.images[k].updated) < RetainWindow }

(* C29: freshness is judged by created, the save timeout and the deletion by
   updated.  A template-named ACTIVE image whose created is a retention
   window or more back and whose updated is less does not count as fresh:
   when no template-named image is SAVING and none is fresh by created, the
   pass issues the create request and deletes nothing.  Without force and
   with nothing SAVING a create is issued exactly when no image is fresh by
   created; every delete goes to an image expired by updated; and the pass
   times out exactly when a SAVING image below 100 percent is overdue by
   updated. *)
C29_TouchedImageDoesNotSuppressCreate ==
    (PassDone /\ Listed) =>
      /\ (OurSaving = {} /\ OurFresh = {} /\ OurTouched # {}) =>
            (CreateIssued /\ DeleteIssued = {})
      /\ (~ passIn[1].sd.force /\ OurSaving = {}) =>
            (CreateIssued <=> OurFresh = {})
      /\ DeleteIssued \subseteq OurExpired
      /\ passOut[1].result.branch = "timed_out" <=>
            \E k \in OurOverdue : passIn[1].response.images[k].progress < 100

(* without force, the only template-named ACTIVE image was created a full
   window ago and updated within it, and the create request went out *)
C29_Witness ==
    /\ PassDone /\ Listed /\ ~ passIn[1].sd.force
    /\ OurSaving = {}
    /\ OurActive # {}
    /\ OurActive = OurTouched
    /\ passOut[1].result.branch = "create"
    /\ CreateIssued

(* C30: the retention boundary is strict on both sides.  Without force, when
   the only template-named image is ACTIVE with now - created and
   now - updated both equal to the retention window, it is neither fresh nor
   expired: the pass issues the create request and does not delete it. *)
C30_BoundaryImageCreatesAndStays ==
    (/\ PassDone /\ Listed /\ ~ passIn[1].sd.force
     /\ \E k \in Ours :
          /\ Ours = {k}
          /\ k \in OurActive
          /\ Age(passIn[1].response.images[k].created) = RetainWindow
          /\ Age(passIn[1].response.images[k].updated) = RetainWindow)
    => /\ CreateIssued
       /\ DeleteIssued = {}
       /\ OurFresh = {}
       /\ OurExpired = {}

(* the boundary image beside a foreign image, and the create request out *)
C30_Witness ==
    /\ PassDone /\ Listed /\ ~ passIn[1].sd.force
    /\ Len(passIn[1].response.images) > 1
    /\ \E k \in Ours :
          /\ Ours = {k}
          /\ k \in OurActive
          /\ Age(passIn[1].response.images[k].created) = RetainWindow
          /\ Age(passIn[1].response.images[k].updated) = RetainWindow
    /\ passOut[1].result.branch = "create"
    /\ passOut[1].result.created = <<NameOfNow>>

---------------------------------------------------------------------------
(* Properties of a pass (SpecPass), continued *)

(* Template-named images whose status is neither SAVING nor ACTIVE *)
OurOther == Ours \ (OurSaving \cup OurActive)

(* C31: every delete request of a pass goes to an image whose status is
   ACTIVE, and a template-named image whose status is neither SAVING nor
   ACTIVE changes nothing: the pass does what it does on the same listing
   without that image, so it neither holds back the create request nor
   counts as a fresh image. *)
C31_OnlyActiveDeleted ==
    (PassDone /\ Listed) =>
        /\ \A d \in DeleteIssued : passIn[1].response.images[d].status = "ACTIVE"
        /\ \A k \in OurOther :
              passOut[1].result =
                  process_server(passIn[1].utcnow, passIn[1].sd,
                                 WithoutImage(passIn[1].response, k),
                                 passOut[1].deletes)

(* without force, a template-named ERROR image created within the retention
   window, no ACTIVE one fresh, and the create request out *)
C31_Witness ==
    /\ PassDone /\ Listed /\ ~ passIn[1].sd.force
    /\ \E k \in OurOther :
          Age(passIn[1].response.images[k].created) < RetainWindow
    /\ OurFresh = {}
    /\ passOut[1].result.branch = "create"

---------------------------------------------------------------------------
(* Properties of a run (Spec), continued *)

(* The servers now on the queue, and those a roller is processing *)
Queued == { server_queue[k] : k \in 1..Len(server_queue) } \ {None}
InProcess == { rollerItem[w] : w \in { v \in DOMAIN rollerPc : rollerPc[v] = "process" } }

(* token, servers_url, images_url and server_id are all set *)
Populated(sd) ==
    /\ sd.token # Unset
    /\ sd.servers_url # Unset
    /\ sd.images_url # Unset
    /\ sd.server_id # None

(* C32: every server on the queue, and every server a roller is processing,
   has its token, servers_url, images_url and server_id set. *)
C32_QueuedServersPopulated ==
    \A i \in Queued \cup InProcess : i \in 1..Len(server_data) /\ Populated(server_data[i])

(* one server in a pass, set up in full, after another was left off the
   queue for want of a server id *)
C32_Witness ==
    /\ InProcess # {}
    /\ \A i \in InProcess : Populated(server_data[i])
    /\ mgrIdx > Len(server_data)
    /\ \E i \in 1..Len(server_data) :
          /\ server_data[i].server_id = None
          /\ i \notin Queued \cup InProcess
          /\ \A k \in 1..Len(putLog) : putLog[k] # i

(* The identity request has been made *)
Authenticated == ident_response # NotCalled

(* C33: the identity request is made once, in the step that constructs the
   manager, when no roller exists yet; the run never comes back to that
   step; rollers exist only after the request succeeded; a server that has
   a token has the token of that answer, and once rollers exist every server
   has it. *)
C33_AuthenticatedOnceBeforeRollers ==
    [][/\ ident_response' # ident_response =>
            /\ ~ Authenticated
            /\ mainPc = "execute"
            /\ rollerPc = <<>>
       /\ mainPc' = "execute" => mainPc = "execute"
       /\ mainPc' # "execute" => Authenticated'
       /\ rollerPc' # <<>> =>
            /\ IdentitySucceeded'
            /\ \A i \in 1..Len(server_data') :
                  server_data'[i].token = ident_response'.content.token
       /\ \A i \in 1..Len(server_data') :
            server_data'[i].token \in {Unset, ident_response'.content.token}]_vars

(* two servers hold the token of the one answer, and a roller has started *)
C33_Witness ==
    /\ Authenticated
    /\ Len(server_data) >= 2
    /\ \A i \in 1..Len(server_data) :
          server_data[i].token = ident_response.content.token
    /\ ident_response.content.token # Unset
    /\ \E w \in DOMAIN rollerPc : rollerPc[w] # "new"

(* The lookup of server i raises: a status other than 200, or a body that is
   not JSON *)
LookupRaises(i) == servers_api[i].status_code # HTTP_OK \/ ~ servers_api[i].json

(* The manager has put one sentinel per roller, set the flag and passed the
   barrier, and every roller has taken a sentinel and passed it too *)
PoolPoisoned ==
    /\ Count(putLog, None) = concurrent_workers
    /\ is_stopping
    /\ mgrPc = "done"
    /\ \A w \in DOMAIN rollerPc : Count(taken[w], None) = 1 /\ rollerPc[w] = "exited"

(* C34: when the manager is about to make a lookup that raises, it still
   goes through stop(), puts concurrent_workers sentinels and reaches the
   barrier, and every roller gets its sentinel and leaves: no roller stays
   blocked on the empty queue. *)
C34_RaisingLookupStillPoisons ==
    (mgrPc = "run" /\ LookupRaises(mgrIdx)) ~> PoolPoisoned

(* the loop was left at the first of two servers, and the pool is poisoned *)
C34_Witness ==
    /\ PoolPoisoned
    /\ Len(server_data) >= 2
    /\ mgrIdx = 1
    /\ LookupRaises(1)
    /\ Enqueued = {}

(* The rollers inside a pass (between get() and the return of
   process_server, the create request it waits for included) *)
Processing == { w \in DOMAIN rollerPc : rollerPc[w] = "process" }
Last(seq) == seq[Len(seq)]

(* C35: a roller dequeues only from get(), with every host it dequeued
   before already processed and no sentinel received; a host sends it into
   the pass, a sentinel out of the loop; a pass ends only from the
   processing state, for the host dequeued last, and leads back to get();
   a roller past the loop has a sentinel as its last item; and the rollers
   inside a pass, hence the create requests in flight, never outnumber
   concurrent_workers. *)
C35_RollerStateMachine ==
    [][/\ \A w \in DOMAIN rollerPc \cap DOMAIN rollerPc' :
            /\ taken'[w] # taken[w] =>
                 /\ rollerPc[w] = "get"
                 /\ Count(taken[w], None) = 0
                 /\ Len(handled[w]) = Len(taken[w])
                 /\ \E item \in Servers \cup {None} :
                       /\ taken'[w] = Append(taken[w], item)
                       /\ rollerPc'[w] = IF item = None THEN "stopped" ELSE "process"
                       /\ item # None => rollerItem'[w] = item
            /\ handled'[w] # handled[w] =>
                 /\ rollerPc[w] = "process"
                 /\ rollerPc'[w] = "get"
                 /\ taken'[w] = taken[w]
                 /\ Len(handled'[w]) = Len(taken[w])
                 /\ Last(handled'[w]).server = Last(taken[w])
            /\ rollerPc'[w] # rollerPc[w] =>
                 <<rollerPc[w], rollerPc'[w]>> \in
                     { <<"new", "get">>, <<"get", "process">>, <<"process", "get">>,
                       <<"get", "stopped">>, <<"stopped", "barrier">>,
                       <<"stopped", "exited">>, <<"barrier", "exited">> }
            /\ rollerPc'[w] \in {"stopped", "barrier", "exited"} =>
                 /\ taken'[w] # <<>>
                 /\ Last(taken'[w]) = None
       /\ Cardinality(Processing') <= concurrent_workers']_vars

(* every roller of a pool of two is inside a pass at once *)
C35_Witness ==
    /\ concurrent_workers >= 2
    /\ Processing = DOMAIN rollerPc
    /\ Cardinality({ rollerItem[w] : w \in Processing }) = concurrent_workers

---------------------------------------------------------------------------
(* Properties of a pass (SpecPass), continued *)

(* No listed image was updated before it was created *)
UpdatedAfterCreated ==
    \A k \in 1..Len(passIn[1].response.images) :
        passIn[1].response.images[k].updated >= passIn[1].response.images[k].created

(* C36: when no listed image was updated before it was created, a pass that
   sends any delete request leaves a template-named ACTIVE image without
   one: no image that is fresh by created is among the deleted, and there is
   such an image. *)
C36_DeleteLeavesFreshImage ==
    (PassDone /\ Listed /\ UpdatedAfterCreated /\ DeleteIssued # {}) =>
        /\ OurFresh # {}
        /\ OurFresh \cap DeleteIssued = {}
        /\ OurActive \ DeleteIssued # {}

(* an expired image deleted beside a fresh one, none updated before created *)
C36_Witness ==
    /\ PassDone /\ Listed /\ UpdatedAfterCreated
    /\ DeleteIssued # {}
    /\ OurFresh \ DeleteIssued # {}
    /\ passOut[1].result.branch = "delete"

(* What _delete_expired_images returns in this pass *)
DeletionOfPass ==
    _delete_expired_images(passIn[1].utcnow, passIn[1].sd,
                           get_images(passIn[1].response).images,
                           passOut[1].deletes)

(* Every delete request of the pass gets an answer (none raises) *)
DeletesAnswered == \A k \in OurExpired : passOut[1].deletes[k] # 0

(* C37: in a deletion pass whose delete requests all come back with a
   status, a failure status stops nothing: the requests go to exactly the
   expired template-named ACTIVE images, one each, and
   _delete_expired_images returns True exactly when every one of them was
   answered 204. *)
C37_FailedDeleteDoesNotStopPass ==
    (PassDone /\ Listed /\ passOut[1].result.branch = "delete" /\ DeletesAnswered) =>
        /\ passOut[1].result.deleted = DeletionOfPass.deleted
        /\ ~ passOut[1].result.raised
        /\ DeleteIssued = OurExpired
        /\ Len(passOut[1].result.deleted) = Cardinality(OurExpired)
        /\ DeletionOfPass.success <=>
              \A k \in OurExpired : passOut[1].deletes[k] = HTTP_NO_CONTENT

(* the first of two expired images is refused, the second deleted *)
C37_Witness ==
    /\ PassDone /\ Listed /\ passOut[1].result.branch = "delete" /\ DeletesAnswered
    /\ passOut[1].result.deleted = <<1, 2>>
    /\ passOut[1].deletes[1] = 500
    /\ passOut[1].deletes[2] = HTTP_NO_CONTENT
    /\ ~ DeletionOfPass.success

---------------------------------------------------------------------------
(* Properties of a run with other callers of stop() (SpecStop) *)

(* Every roller has left its loop for good *)
RollersExited ==
    /\ rollerPc # <<>>
    /\ \A w \in DOMAIN rollerPc : rollerPc[w] \in {"stopped", "barrier", "exited"}

(* C38: with stop() called by another thread at any time, once the rollers
   have left, every server the manager put on the queue has been processed
   by a roller and no server is left on the queue. *)
C38_ExternalStopLosesNoWork ==
    (RollersExited /\ RunReturned) =>
        /\ \A i \in Enqueued : Passes(i) # {}
        /\ Queued = {}

====
